---------------------------- MODULE Spec2Model ----------------------------
(***************************************************************************)
(* A model of cvrdump.py, the extractor of Castlevania: Resurrection .bin  *)
(* archives: the archive reader of readbin, the PowerVR texture decoder    *)
(* pvr_decode, the material loader smt_load with the mesh transcoder       *)
(* smf_decode, the animation transcoder saf_decode and the asset loops of  *)
(* readbin that run after the archive scan.                                *)
(*                                                                         *)
(* Byte strings are modelled by their length and the values the code reads *)
(* from them.  A Python exception is a result record with ok = FALSE, or   *)
(* the control state "raised" once it has left readbin.                    *)
(***************************************************************************)
EXTENDS Integers, Sequences, FiniteSets, TLC

VARIABLES
    \* ---- readbin: the archive and the stream cursor
    stream,          \* the directories laid out on the stream (the input)
    file_length,     \* os.fstat (f.fileno ()).st_size
    args,            \* the parsed command line
    cur,             \* f.tell ()
    pc,              \* where readbin is
    err,             \* the exception that left readbin, "" when none
    di,              \* directories read so far
    dn,              \* name of the directory being read
    nfiles,          \* its file count
    i,               \* files of it read so far
    entries,         \* (directory, file, bytes read, cursor after) per entry
    bfn,             \* the archive's base name, "" while unassigned
    \* ---- readbin: what the scan collects
    sskdb, ssndb, scfdb, smtdb,
    textures, models,
    animset_script, actor_script,
    fs,              \* the files written below the prefix
    \* ---- pvr_decode
    tex,             \* the blob handed to pvr_decode (the input)
    pvr,             \* what pvr_decode returned or raised
    mcalls,          \* the calls of morton made: (x, y, result)
    \* ---- readbin: the asset loops after the scan
    stage,           \* the part of readbin that ran last
    ti,              \* passes of for txt in textures
    mi,              \* passes of for mdl in models
    animsets,        \* animset tag -> its animations
    actors,          \* the items of the dict actors, in order
    ai,              \* passes of for k, v in actors.items ()
    ni,              \* passes of for anim in animset, for the actor at hand
    skel,            \* the nodes of the skeleton of the actor at hand
    out,             \* the diagnostics printed and the files converted
    \* ---- main
    rest             \* the archives of args.files after the one being read

scanVars == <<stream, file_length, args, cur, pc, err, di, dn, nfiles, i,
              entries, bfn>>
dbVars == <<sskdb, ssndb, scfdb, smtdb, textures, models, animset_script,
            actor_script, fs>>
pvrVars == <<tex, pvr, mcalls>>
runVars == <<stage, ti, mi, animsets, actors, ai, ni, skel, out>>
vars == <<scanVars, dbVars, pvrVars, runVars, rest>>

-----------------------------------------------------------------------------
(* Bounds of the model *)

MaxDirs == 2
MaxFiles == 2
MaxDim == 4          \* texture widths and heights run over 0..MaxDim
MortonLow == 3       \* morton is called on 0..MortonLow and on sample values
MaxTex == 2          \* textures of an archive of a whole run
MaxModels == 2       \* its static models
MaxActors == 2       \* the actors of its actor script
MaxAnims == 2        \* the animations of its animset

-----------------------------------------------------------------------------
(* Integer helpers: Python's & and | on non-negative integers *)

Min(a, b) == IF a < b THEN a ELSE b
Max(a, b) == IF a < b THEN b ELSE a

RECURSIVE BitAnd(_, _)
BitAnd(a, b) ==
    IF a = 0 \/ b = 0 THEN 0
    ELSE (a % 2) * (b % 2) + 2 * BitAnd(a \div 2, b \div 2)

RECURSIVE BitOr(_, _)
BitOr(a, b) ==
    IF a = 0 THEN b
    ELSE IF b = 0 THEN a
    ELSE Max(a % 2, b % 2) + 2 * BitOr(a \div 2, b \div 2)

\* a & ~m for non-negative a and m
AndNot(a, m) == a - BitAnd(a, m)

\* A finite map, as a function on the keys stored so far
EmptyMap == [k \in {} |-> 0]
Put(db, k, v) == [x \in (DOMAIN db) \cup {k} |-> IF x = k THEN v ELSE db[x]]

-----------------------------------------------------------------------------
(* Names.  str.lower () on the names the model uses. *)

Lower(s) ==
    CASE s = "SSK" -> "ssk"
      [] s = "Hero" -> "hero"
      [] s = "Bat" -> "bat"
      [] s = "Wolf" -> "wolf"
      [] s = "Imp" -> "imp"
      [] s = "Set0" -> "set0"
      [] s = "Walk" -> "walk"
      [] OTHER -> s

\* cstr_decode: data.index (0) raises ValueError when the bytes read hold no
\* NUL.  A name field is the name, then NULs up to 32 bytes, so the NUL is
\* found exactly when more bytes than the name were read.
cstr_decode(s, got) ==
    IF Len(s) < got THEN [ok |-> TRUE, val |-> Lower(s)]
    ELSE [ok |-> FALSE, val |-> "ValueError"]

\* '_animsets.txt' in fn and '_actors.txt' in fn, on the file names used
AnimsetNames == {"e01_animsets.txt", "e02_animsets.txt"}
ActorNames == {"e01_actors.txt", "e02_actors.txt"}

-----------------------------------------------------------------------------
(* The archives the reader is run on *)

ALIGNMENT == 2048
DIR_HEADER == 44        \* 8 unknown bytes, 32 of name, 4 of file count
FILE_HEADER == 40       \* 32 of name, 8 of (size, unknown)
SSK_HEADER == 52        \* calcsize ('<5I32s')
SSN_HEADER == 60        \* calcsize ('<7I32s')
SMF_HEADER == 60        \* calcsize ('<15I')
SMF_SKIP == 216         \* calcsize ('<54I')

DirNames == <<"textures", "SSK", "misc", "ssn", "scf", "smf">>
PlainFiles == <<"a.dat", "b.dat", "c.dat", "d.dat">>
MiscFiles == <<"e01_animsets.txt", "e01_actors.txt", "readme.txt", "x.txt">>
Symbols == <<"Hero", "bat", "wolf", "imp">>
SizePatterns == << <<1964, 0, 300>>, <<2048, 4012, 1>>, <<52, 2049, 290>> >>

Pick(seq, k) == seq[(k % Len(seq)) + 1]

\* File k (from 0) of directory d (from 0) of the archive built from
\* the name seed ns and the size pattern sp
FileOf(ns, sp, d, k) ==
    [fn |-> IF Pick(DirNames, ns + d) = "misc" THEN Pick(MiscFiles, k)
            ELSE Pick(PlainFiles, k),
     sz |-> Pick(SizePatterns[sp], d + k),
     body |-> [sym |-> Pick(Symbols, d + k)]]

DirOf(ns, sp, d, n) ==
    [name |-> Pick(DirNames, ns + d),
     nfiles |-> n,
     files |-> [k \in 1..n |-> FileOf(ns, sp, d, k - 1)]]

Streams ==
    UNION {
      { [d \in 1..nd |-> DirOf(ns, sp, d - 1, counts[d])] :
          ns \in 0..(Len(DirNames) - 1),
          sp \in 1..Len(SizePatterns),
          counts \in [1..nd -> 0..MaxFiles] } :
      nd \in 1..MaxDirs }

\* (cur + 2047) & ~2047
NextPageSkips(p) == AndNot(p + ALIGNMENT, ALIGNMENT - 1)

NextPage(p) == AndNot(p + (ALIGNMENT - 1), ALIGNMENT - 1)

\* Where the entries of a directory end on a complete stream
RECURSIVE FilesEnd(_, _, _)
FilesEnd(files, k, p) ==
    IF k > Len(files) THEN p
    ELSE FilesEnd(files, k + 1, NextPage(p + FILE_HEADER + files[k].sz))

RECURSIVE DirStart(_, _)
DirStart(s, d) ==
    IF d = 1 THEN 0
    ELSE FilesEnd(s[d - 1].files, 1, DirStart(s, d - 1) + DIR_HEADER)

RECURSIVE FileStart(_, _, _)
FileStart(s, d, k) ==
    IF k = 1 THEN DirStart(s, d) + DIR_HEADER
    ELSE NextPage(FileStart(s, d, k - 1) + FILE_HEADER + s[d].files[k - 1].sz)

StreamEnd(s) == DirStart(s, Len(s) + 1)

\* The lengths a stream is cut to: between directories, inside a directory
\* header, inside an entry's header, inside and at the end of its payload,
\* and in the padding after it
Cuts(s) ==
    {StreamEnd(s)}
    \cup UNION { {DirStart(s, d) + o : o \in {0, 4, 9, 20, 42}} : d \in 1..Len(s) }
    \cup UNION { UNION {
           { FileStart(s, d, k) + o :
               o \in {0, 3, 20, 36, FILE_HEADER,
                      FILE_HEADER + (s[d].files[k].sz \div 2),
                      FILE_HEADER + s[d].files[k].sz,
                      FILE_HEADER + s[d].files[k].sz + 1} } :
           k \in 1..s[d].nfiles } : d \in 1..Len(s) }

ArgsSet ==
    { [raw |-> FALSE, textures |-> TRUE, models |-> TRUE, actors |-> TRUE],
      [raw |-> TRUE, textures |-> FALSE, models |-> FALSE, actors |-> TRUE] }

-----------------------------------------------------------------------------
(* readbin: the archive reader, lines 1036-1106 *)

\* How many bytes f.read (n) returns at position p
ReadLen(n, p) == Max(0, Min(n, file_length - p))

ssk_symbolic_name(data) ==
    IF data.len < SSK_HEADER THEN [ok |-> FALSE, val |-> "struct.error"]
    ELSE cstr_decode(data.body.sym, 32)

ssn_symbolic_name(data) ==
    IF data.len < SSN_HEADER THEN [ok |-> FALSE, val |-> "struct.error"]
    ELSE cstr_decode(data.body.sym, 32)

smf_symbolic_name(data) ==
    IF data.len < SMF_HEADER THEN [ok |-> FALSE, val |-> "struct.error"]
    ELSE cstr_decode(data.body.sym,
                     Max(0, Min(32, data.len - (SMF_HEADER + SMF_SKIP))))

Raise(e, p) ==
    /\ pc' = "raised"
    /\ err' = e
    /\ cur' = p

\* f.tell () after the 8 + 32 + 4 bytes of a directory header read at p;
\* readbin does not seek before the for loop
HeaderEndPaged(p) == NextPage(p + DIR_HEADER)

HeaderEnd(p) == p + DIR_HEADER

\* while f.tell () < file_length: the directory header, up to the for loop
ReadDirHeader ==
    /\ pc = "dir"
    /\ cur < file_length
    /\ LET d == stream[di + 1]
           g1 == ReadLen(8, cur)
           g2 == ReadLen(32, cur + 8)
           g3 == ReadLen(4, cur + 40)
           name == cstr_decode(d.name, g2)
       IN IF g1 < 8 THEN
               /\ Raise("struct.error", cur + g1)
               /\ UNCHANGED <<di, dn, nfiles, i, bfn>>
          ELSE IF ~name.ok THEN
               /\ Raise("ValueError", cur + 8 + g2)
               /\ UNCHANGED <<di, dn, nfiles, i, bfn>>
          ELSE IF g3 < 4 THEN
               /\ Raise("struct.error", cur + 40 + g3)
               /\ dn' = name.val
               /\ UNCHANGED <<di, nfiles, i, bfn>>
          ELSE /\ dn' = name.val
               /\ nfiles' = d.nfiles
               /\ bfn' = "archive"
               /\ di' = di + 1
               /\ i' = 0
               /\ cur' = HeaderEnd(cur)
               /\ pc' = IF d.nfiles = 0 THEN "dir" ELSE "file"
               /\ err' = err
    /\ UNCHANGED <<stream, rest, file_length, args, entries, dbVars, pvrVars, runVars>>

\* What the scan notes of an entry, by its directory (lines 1072-1095)
Index(f, data) ==
    LET dnl == Lower(dn)
        path == <<dn, f.fn>>
        same == [ok |-> TRUE, ssk |-> sskdb, ssn |-> ssndb, scf |-> scfdb,
                 smt |-> smtdb, tex |-> textures, mdl |-> models,
                 anims |-> animset_script, acts |-> actor_script]
        bad == [same EXCEPT !.ok = FALSE]
    IN CASE dnl = "ssk" ->
              LET r == ssk_symbolic_name(data)
              IN IF r.ok THEN [same EXCEPT !.ssk = Put(sskdb, r.val, path)]
                 ELSE bad
         [] dnl = "ssn" ->
              LET r == ssn_symbolic_name(data)
              IN IF r.ok THEN [same EXCEPT !.ssn = Put(ssndb, r.val, path)]
                 ELSE bad
         [] dnl = "scf" ->
              LET r == smf_symbolic_name(data)
              IN IF r.ok THEN [same EXCEPT !.scf = Put(scfdb, r.val, path),
                                           !.smt = Put(smtdb, r.val, f.fn)]
                 ELSE bad
         [] dnl = "smf" ->
              IF args.models THEN [same EXCEPT !.mdl = Append(models, f.fn)]
              ELSE same
         [] dnl = "textures" ->
              IF args.textures THEN [same EXCEPT !.tex = Append(textures, path)]
              ELSE same
         [] OTHER ->
              [same EXCEPT
                 !.anims = IF f.fn \in AnimsetNames THEN data ELSE animset_script,
                 !.acts = IF f.fn \in ActorNames THEN data ELSE actor_script]

\* One pass of for i in range (nfiles): name, header, payload, the symbol
\* tables, the raw file, and the seek to the next page
ReadFileEntry ==
    /\ pc = "file"
    /\ LET f == stream[di].files[i + 1]
           g1 == ReadLen(32, cur)
           g2 == ReadLen(8, cur + 32)
           fp == cur + FILE_HEADER
           got == ReadLen(f.sz, fp)
           data == [len |-> got, body |-> f.body]
           name == cstr_decode(f.fn, g1)
           fn == IF name.ok THEN name.val ELSE f.fn
           ix == Index([f EXCEPT !.fn = fn], data)
       IN IF ~name.ok THEN
               /\ Raise("ValueError", cur + g1)
               /\ UNCHANGED <<i, entries, dbVars>>
          ELSE IF g2 < 8 THEN
               /\ Raise("struct.error", cur + 32 + g2)
               /\ UNCHANGED <<i, entries, dbVars>>
          ELSE IF ~ix.ok THEN
               /\ Raise("struct.error", fp + got)
               /\ UNCHANGED <<i, entries, dbVars>>
          ELSE /\ sskdb' = ix.ssk
               /\ ssndb' = ix.ssn
               /\ scfdb' = ix.scf
               /\ smtdb' = ix.smt
               /\ textures' = ix.tex
               /\ models' = ix.mdl
               /\ animset_script' = ix.anims
               /\ actor_script' = ix.acts
               /\ fs' = Put(fs, <<dn, fn>>, data)
               /\ cur' = NextPage(fp + got)
               /\ entries' = Append(entries,
                     [d |-> di, dir |-> dn, fn |-> fn, sz |-> f.sz, got |-> got,
                      endp |-> fp + got, next |-> NextPage(fp + got)])
               /\ i' = i + 1
               /\ pc' = IF i + 1 < nfiles THEN "file" ELSE "dir"
               /\ err' = err
    /\ UNCHANGED <<stream, rest, file_length, args, di, dn, nfiles, bfn, pvrVars,
                   runVars>>

\* The while loop ends: f.tell () >= file_length
ScanEnd ==
    /\ pc = "dir"
    /\ cur >= file_length
    /\ pc' = "scanned"
    /\ UNCHANGED <<stream, rest, file_length, args, cur, err, di, dn, nfiles, i,
                   entries, bfn, dbVars, pvrVars, runVars>>

-----------------------------------------------------------------------------
(* pvr_decode, lines 45-224 *)

HEADER_SIZE == 16
CODEBOOK_SIZE == 2048
MAX_WIDTH == 32768
MAX_HEIGHT == 32768

ARGB1555 == 0
RGB565 == 1
ARGB4444 == 2

SQUARE_TWIDDLED == 1
SQUARE_TWIDDLED_MIPMAP == 2
VQ == 3
VQ_MIPMAP == 4

NTYPES == 7       \* len (TYPES)
NFMTS == 17       \* len (FMTS)
VQ_PADDING == 10  \* the bytes after the index map of a VQ image

\* The bytes of the texture blob t: 'PVRT', 4 bytes of length, the header
\* (pixel_format, data_layout, reserved, width, height), then the body
BodyByte(t, j) == (t.seed + 37 * j + 11 * (j \div 2)) % 256

ByteOf(t, k) ==
    CASE k < 4 -> IF t.magic THEN <<80, 86, 82, 84>>[k + 1] ELSE 0
      [] k \in 4..7 -> 0
      [] k = 8 -> t.px
      [] k = 9 -> t.fmt
      [] k \in 10..11 -> 0
      [] k = 12 -> t.width % 256
      [] k = 13 -> t.width \div 256
      [] k = 14 -> t.height % 256
      [] k = 15 -> t.height \div 256
      [] OTHER -> BodyByte(t, k - HEADER_SIZE)

\* A byte string is a run of len bytes of a blob, from its byte lo on
Data(t) == [of |-> t, lo |-> 0, len |-> t.len]

\* b[k]
At(b, k) == ByteOf(b.of, b.lo + k)

\* data[start:stop] with Python's treatment of negative and large indices
PyIndex(x, n) == IF x < 0 THEN Max(x + n, 0) ELSE Min(x, n)

PySlice(b, start, stop) ==
    LET lo == PyIndex(start, b.len)
        hi == PyIndex(stop, b.len)
    IN [of |-> b.of, lo |-> b.lo + lo, len |-> Max(0, hi - lo)]

\* Element m of unpack ('<nH', b)
Word(b, m) == At(b, 2 * m) + 256 * At(b, 2 * m + 1)

\* Python's integers have no width, and morton returns values up to
\* 2^32 - 1: an integer is held here as the set of the positions of its
\* one bits.  x | y is the union, x & m the intersection, x << n a shift
\* of every position.
Bits(n) == {k \in 0..30 : (n \div (2 ^ k)) % 2 = 1}

RECURSIVE IntOf(_)
IntOf(b) ==
    IF b = {} THEN 0
    ELSE LET k == CHOOSE k \in b : TRUE IN 2 ^ k + IntOf(b \ {k})

Shl(b, n) == {k + n : k \in b}

\* 0x00ff00ff, 0x0f0f0f0f, 0x33333333, 0x55555555
Mask8 == {k \in 0..31 : (k \div 8) % 2 = 0}
Mask4 == {k \in 0..31 : (k \div 4) % 2 = 0}
Mask2 == {k \in 0..31 : (k \div 2) % 2 = 0}
Mask1 == {k \in 0..31 : k % 2 = 0}

\* One line of morton: (x | (x << n)) & mask
Spread(b, n, mask) == (b \cup Shl(b, n)) \cap mask

\* morton with the arguments' roles exchanged: x on the odd bits
mortonSwapped(x, y) ==
    LET x4 == Spread(Spread(Spread(Spread(Bits(x), 8, Mask8), 4, Mask4),
                            2, Mask2), 1, Mask1)
        y4 == Spread(Spread(Spread(Spread(Bits(y), 8, Mask8), 4, Mask4),
                            2, Mask2), 1, Mask1)
    IN y4 \cup Shl(x4, 1)

\* morton with a digit wrong in the third mask: 0x33333313
mortonBadMask(x, y) ==
    LET x4 == Spread(Spread(Spread(Spread(Bits(x), 8, Mask8), 4, Mask4),
                            2, Mask2 \ {5}), 1, Mask1)
        y4 == Spread(Spread(Spread(Spread(Bits(y), 8, Mask8), 4, Mask4),
                            2, Mask2 \ {5}), 1, Mask1)
    IN x4 \cup Shl(y4, 1)

\* Lines 121-130, the result as the set of its one bits
morton(x, y) ==
    LET x4 == Spread(Spread(Spread(Spread(Bits(x), 8, Mask8), 4, Mask4),
                            2, Mask2), 1, Mask1)
        y4 == Spread(Spread(Spread(Spread(Bits(y), 8, Mask8), 4, Mask4),
                            2, Mask2), 1, Mask1)
    IN x4 \cup Shl(y4, 1)

\* data[morton (i, j)]: the code as an index (the coordinates of a texture
\* are below 0x8000, so the code is below 2^30)
MortonIndex(r, j) == IntOf(morton(r, j))

\* unpack1555 with the alpha a set bit 15 would give if (colour>>15)&31
\* were 31
unpack1555Wide(colour) ==
    << (255 * BitAnd(colour \div 1024, 31)) \div 31,
       (255 * BitAnd(colour \div 32, 31)) \div 31,
       (255 * BitAnd(colour, 31)) \div 31,
       255 * 31 * BitAnd(colour \div 32768, 1) >>

\* Colour decoders, lines 133-151.  int (255*v/31.0) is the floor of the
\* quotient: the float quotient of integers this small is exact or at least
\* 1/63 away from an integer.
unpack1555(colour) ==
    << (255 * BitAnd(colour \div 1024, 31)) \div 31,
       (255 * BitAnd(colour \div 32, 31)) \div 31,
       (255 * BitAnd(colour, 31)) \div 31,
       255 * BitAnd(colour \div 32768, 31) >>

unpack4444(colour) ==
    << (255 * BitAnd(colour \div 256, 15)) \div 15,
       (255 * BitAnd(colour \div 16, 15)) \div 15,
       (255 * BitAnd(colour, 15)) \div 15,
       (255 * BitAnd(colour \div 4096, 15)) \div 15 >>

unpack565(colour) ==
    << (255 * BitAnd(colour \div 2048, 31)) \div 31,
       (255 * BitAnd(colour \div 32, 63)) \div 63,
       (255 * BitAnd(colour, 31)) \div 31 >>

\* decoder (colour), for the decoder pvr_decode passes down
Decode(decoder, colour) ==
    CASE decoder = "unpack1555" -> unpack1555(colour)
      [] decoder = "unpack4444" -> unpack4444(colour)
      [] decoder = "unpack565" -> unpack565(colour)

Returned(pix, mode) == [kind |-> "pix", val |-> pix, mode |-> mode]
Failed(msg) == [kind |-> "error", val |-> msg, mode |-> ""]
Raised(e) == [kind |-> "raise", val |-> e, mode |-> ""]

\* row.extend (decoder (data[morton (i, j)])) for j in range (width)
RECURSIVE MortonRow(_, _, _, _, _)
MortonRow(mip, decoder, r, j, width) ==
    IF j >= width THEN <<>>
    ELSE Decode(decoder, Word(mip, MortonIndex(r, j)))
         \o MortonRow(mip, decoder, r, j + 1, width)

\* morton_decode with the row loop one short
morton_decodeShort(raw, width, height, decoder, mode) ==
    LET size == raw.len
        base == width * height * 2
        mip == PySlice(raw, size - base, size)
    IN IF mip.len # 2 * (width * height) THEN Raised("struct.error")
       ELSE IF \E r \in 0..(height - 1), j \in 0..(width - 1) :
                  MortonIndex(r, j) >= width * height
       THEN Raised("IndexError")
       ELSE Returned([r \in 1..(height - 1) |->
                        MortonRow(mip, decoder, r - 1, 0, width)], mode)

\* Lines 187-201.  unpack raises unless mip holds exactly width*height
\* words; data[morton (i, j)] raises past the end of data.
morton_decode(raw, width, height, decoder, mode) ==
    LET size == raw.len
        base == width * height * 2
        mip == PySlice(raw, size - base, size)
    IN IF mip.len # 2 * (width * height) THEN Raised("struct.error")
       ELSE IF \E r \in 0..(height - 1), j \in 0..(width - 1) :
                  MortonIndex(r, j) >= width * height
       THEN Raised("IndexError")
       ELSE Returned([r \in 1..height |->
                        MortonRow(mip, decoder, r - 1, 0, width)], mode)

\* The two rows of codebook blocks of block row r; k is 0 for row0
\* (entries + 0 and + 2) and 1 for row1 (entries + 1 and + 3)
RECURSIVE VqRow(_, _, _, _, _, _, _)
VqRow(book, lut, decoder, r, j, width, k) ==
    IF j >= width \div 2 THEN <<>>
    ELSE LET entry == 4 * At(lut, MortonIndex(r, j))
         IN Decode(decoder, Word(book, entry + k))
            \o Decode(decoder, Word(book, entry + k + 2))
            \o VqRow(book, lut, decoder, r, j + 1, width, k)

\* Lines 155-185.  unpack raises unless the codebook is whole;
\* lut[morton (i, j)] raises past the end of lut.
vq_decode(raw, width, height, decoder, mode) ==
    LET tmp == PySlice(raw, HEADER_SIZE, raw.len)
        book == PySlice(tmp, 0, CODEBOOK_SIZE)
        size == raw.len - VQ_PADDING
        base == (width * height) \div 4
        lut == PySlice(raw, size - base, size)
    IN IF book.len # CODEBOOK_SIZE THEN Raised("struct.error")
       ELSE IF \E r \in 0..((height \div 2) - 1), j \in 0..((width \div 2) - 1) :
                  MortonIndex(r, j) >= lut.len
       THEN Raised("IndexError")
       ELSE Returned([r \in 1..(2 * (height \div 2)) |->
                        VqRow(book, lut, decoder, (r - 1) \div 2, 0, width,
                              (r - 1) % 2)], mode)

\* The dispatch of lines 207-224; elif VQ == fmt or VQ_MIPMAP: tests the
\* constant VQ_MIPMAP for truth
Dispatch(data, px, fmt, width, height) ==
    LET decoder == CASE px = ARGB1555 -> "unpack1555"
                     [] px = ARGB4444 -> "unpack4444"
                     [] px = RGB565 -> "unpack565"
                     [] OTHER -> ""
        mode == IF px = RGB565 THEN "RGB" ELSE "RGBA"
    IN IF px \in {ARGB1555, ARGB4444, RGB565} THEN
            IF fmt = SQUARE_TWIDDLED \/ fmt = SQUARE_TWIDDLED_MIPMAP
            THEN morton_decode(data, width, height, decoder, mode)
            ELSE IF fmt = VQ \/ VQ_MIPMAP # 0
            THEN vq_decode(data, width, height, decoder, mode)
            ELSE Failed("Unsupported encoding")
       ELSE Failed("Unsupported encoding")

pvr_decode(data) ==
    IF data.len < 4 \/ \E k \in 0..3 : At(data, k) # <<80, 86, 82, 84>>[k + 1]
    THEN Failed("Not a PVR texture!")
    ELSE IF data.len < HEADER_SIZE THEN Raised("struct.error")
    ELSE LET px == At(data, 8)
             fmt == At(data, 9)
             width == At(data, 12) + 256 * At(data, 13)
             height == At(data, 14) + 256 * At(data, 15)
         IN IF px >= NTYPES \/ fmt >= NFMTS THEN Raised("IndexError")
            ELSE IF ~(width < MAX_WIDTH) THEN Raised("Exception")
            ELSE IF ~(height < MAX_HEIGHT) THEN Raised("Exception")
            ELSE Dispatch(data, px, fmt, width, height)

NoTex == [magic |-> FALSE, px |-> 0, fmt |-> 0, width |-> 0, height |-> 0,
          len |-> 0, seed |-> 0]
NoPvr == [kind |-> "none", val |-> "", mode |-> ""]

PvrIdle ==
    /\ tex = NoTex
    /\ pvr = NoPvr
    /\ mcalls = <<>>

\* The blobs pvr_decode is run on
PxSamples == {0, 1, 2, 3, 6, 7}
FmtSamples == {1, 2, 3, 4, 9, 16, 17}
DimSamples == (0..MaxDim) \cup {MAX_WIDTH}
LenSamples == {16, 24, 48, 50, 2064, 2075, 2078, 2200}
SeedSamples == {5, 130}

TexInputs ==
    { [magic |-> TRUE, px |-> p, fmt |-> f, width |-> w, height |-> h,
       len |-> n, seed |-> sd] :
        p \in PxSamples, f \in FmtSamples, w \in DimSamples, h \in DimSamples,
        n \in LenSamples, sd \in SeedSamples }
    \cup { [magic |-> m, px |-> RGB565, fmt |-> SQUARE_TWIDDLED, width |-> 2,
            height |-> 2, len |-> n, seed |-> 5] :
             m \in BOOLEAN, n \in {0, 3, 4, 12, 24} }

\* ret, mode = pvr_decode (f.read ())
PvrDecode ==
    /\ pvr.kind = "none"
    /\ tex # NoTex
    /\ pvr' = pvr_decode(Data(tex))
    /\ UNCHANGED <<tex, mcalls, rest, scanVars, dbVars, runVars>>

\* The coordinates morton is called on: the low ones, every single bit, and
\* mixed patterns up to 0xffff
MortonSamples ==
    (0..MortonLow)
    \cup {1, 2, 4, 8, 16, 32, 64, 128, 256, 512, 1024, 2048, 4096, 8192,
          16384, 32768}
    \cup {255, 4660, 21845, 43690, 65280, 65535}
MortonSecond == (0..MortonLow) \cup {21845, 65535}

MortonCall ==
    /\ Len(mcalls) < 2
    /\ \E x \in (IF mcalls = <<>> THEN MortonSamples ELSE MortonSecond),
          y \in (IF mcalls = <<>> THEN MortonSamples ELSE MortonSecond) :
         mcalls' = Append(mcalls, [x |-> x, y |-> y, z |-> morton(x, y)])
    /\ UNCHANGED <<tex, pvr, rest, scanVars, dbVars, runVars>>

-----------------------------------------------------------------------------
(* Initial values *)

NoScript == [len |-> 0, body |-> [sym |-> ""]]

ScanStart ==
    /\ cur = 0
    /\ pc = "dir"
    /\ err = ""
    /\ di = 0
    /\ dn = ""
    /\ nfiles = 0
    /\ i = 0
    /\ entries = <<>>
    /\ bfn = ""
    /\ sskdb = EmptyMap
    /\ ssndb = EmptyMap
    /\ scfdb = EmptyMap
    /\ smtdb = EmptyMap
    /\ textures = <<>>
    /\ models = <<>>
    /\ animset_script = NoScript
    /\ actor_script = NoScript
    /\ fs = EmptyMap

ScanIdle ==
    /\ stream = <<>>
    /\ rest = <<>>
    /\ file_length = 0
    /\ args = [raw |-> FALSE, textures |-> TRUE, models |-> TRUE,
               actors |-> TRUE]
    /\ ScanStart

-----------------------------------------------------------------------------
(* Python values *)

Ok(v) == [ok |-> TRUE, val |-> v]
Err(e) == [ok |-> FALSE, val |-> e]

None == [type |-> "NoneType", val |-> <<>>]
PyStr(s) == [type |-> "str", val |-> s]
PyList(l) == [type |-> "list", val |-> l]

\* The characters of the strings the code indexes
Chars(s) ==
    CASE s = "ERROR" -> <<"E", "R", "R", "O", "R">>
      [] s = "Malformed material!" ->
           <<"M", "a", "l", "f", "o", "r", "m", "e", "d", " ", "m", "a", "t",
             "e", "r", "i", "a", "l", "!">>
      [] OTHER -> <<>>

\* x[k]: a character of a str, an element of a list
Item(x, k) == IF x.type = "str" THEN Chars(x.val)[k + 1] ELSE x.val[k + 1]

\* How many bytes data[off:off + n] holds
Avail(data, off, n) == Max(0, Min(n, data.len - off))

\* A dict: d[k] if k in d else [], and d.update (o)
Get(d, k) == IF k \in DOMAIN d THEN d[k] ELSE <<>>
Update(d, o) ==
    [k \in (DOMAIN d) \cup (DOMAIN o) |-> IF k \in DOMAIN o THEN o[k] ELSE d[k]]

RECURSIVE Flat(_)
Flat(ss) == IF ss = <<>> THEN <<>> ELSE Head(ss) \o Flat(Tail(ss))

RECURSIVE Sum(_)
Sum(ns) == IF ns = <<>> THEN 0 ELSE Head(ns) + Sum(Tail(ns))

\* open_file: the archive's files are below the one prefix of fspaths
open_file(path) ==
    IF path \in DOMAIN fs THEN Ok(fs[path]) ELSE Err("Exception")

-----------------------------------------------------------------------------
(* smt_load, lines 226-263 *)

SMT_MINIMUM == 120
SMT_HEADER == 36        \* 32 bytes of name and the count
PARAM_SIZE == 52        \* calcsize ('<I3f3f3f3f')
TAG_SIZE == 32

\* The tags read so far are ts; tag k + 1 is read next
smt_tag(data, k) ==
    cstr_decode(data.body.tags[k + 1],
                Avail(data, SMT_HEADER + PARAM_SIZE * data.body.count
                            + TAG_SIZE * k, TAG_SIZE))

RECURSIVE smt_tags(_, _, _)
smt_tags(data, k, ts) ==
    IF k >= data.body.count THEN Ok(ts)
    ELSE IF ~smt_tag(data, k).ok THEN Err("ValueError")
    ELSE smt_tags(data, k + 1, Append(ts, smt_tag(data, k).val))

\* return tags, params, count
smt_return(tags, count) ==
    IF ~tags.ok THEN tags
    ELSE Ok([tags |-> PyList(tags.val), count |-> count])

smt_load(data) ==
    IF data.len < SMT_MINIMUM
    THEN Ok([tags |-> PyStr("Malformed material!"), count |-> PyStr("")])
    ELSE IF ~cstr_decode(data.body.sym, TAG_SIZE).ok THEN Err("ValueError")
    ELSE IF data.body.count > 0
            /\ data.len < SMT_HEADER + PARAM_SIZE * data.body.count
    THEN Err("struct.error")
    ELSE smt_return(smt_tags(data, 0, <<>>), data.body.count)

-----------------------------------------------------------------------------
(* ssk_load, lines 271-306, and ssn_load, lines 318-350 *)

BONE_SIZE == 224        \* calcsize ('<32sI21f96sII')
BIND_SIZE == 12         \* calcsize ('<3I')
MPLX_SIZE == 28         \* calcsize ('<4I3f')
MPLX_SKIP == 64         \* the offsets after a multiplex record

\* hierarchy[:nchildren] after the bones before k took theirs
Taken(b, k) == Sum([j \in 1..(k - 1) |-> b.bones[j].nchildren])

Children(b, k) ==
    SubSeq(b.hier, Min(Taken(b, k), Len(b.hier)) + 1,
           Min(Taken(b, k) + b.bones[k].nchildren, Len(b.hier)))

\* unpack (f'<{nbones - 1}I', ...) has no format for nbones = 0
ssk_bones(b, n) ==
    IF \E k \in 1..n : ~cstr_decode(b.bones[k].tag, TAG_SIZE).ok
    THEN Err("ValueError")
    ELSE Ok([k \in 1..n |->
               [tag |-> cstr_decode(b.bones[k].tag, TAG_SIZE).val,
                children |-> Children(b, k)]])

ssk_load(data) ==
    IF data.len < SSK_HEADER THEN Err("struct.error")
    ELSE IF data.body.nbones = 0 THEN Err("struct.error")
    ELSE IF data.len < SSK_HEADER + BONE_SIZE * data.body.nbones
                       + 4 * (data.body.nbones - 1)
    THEN Err("struct.error")
    ELSE ssk_bones(data.body, data.body.nbones)

\* The last multiplex record needs its 28 bytes only
ssn_size(b) ==
    SSN_HEADER + BIND_SIZE * b.count
    + (IF b.multiplexed = 0 THEN 0
       ELSE (MPLX_SIZE + MPLX_SKIP) * (b.multiplexed - 1) + MPLX_SIZE)

ssn_load(data) ==
    IF data.len < SSN_HEADER THEN Err("struct.error")
    ELSE IF data.len < ssn_size(data.body) THEN Err("struct.error")
    ELSE Ok([book |-> data.body.binds, mplx |-> data.body.mplx])

-----------------------------------------------------------------------------
(* smf_decode, lines 373-728 *)

LINEAR == 9729                  \* 0x2601
LINEAR_MIPMAP_LINEAR == 9987    \* 0x2703
REPEAT == 33648                 \* 0x8370
FLOAT == 5126                   \* 0x1406
UNSIGNED_INT == 5125            \* 0x1405
TRIANGLE_STRIP == 5

SMF_NAME == 276         \* HEADER_SIZE + calcsize ('<54I')
SMF_BODY == 360         \* the name, 32 bytes, and 13 unknown words later
STRIP_SIZE == 12        \* calcsize ('<IHHI')

\* (nelem + 7)&~7
Aligned(nelem) == AndNot(nelem + 7, 7)

\* nodes[0]['rotation'], in halves
ROTATION == <<1, 1, -1, 1>>

View(buffer, offset, length, stride) ==
    [buffer |-> buffer, byteOffset |-> offset, byteLength |-> length,
     byteStride |-> stride]

Accessor(view, offset, type, component, count) ==
    [bufferView |-> view, byteOffset |-> offset, type |-> type,
     componentType |-> component, count |-> count]

\* for i in range (count), lines 411-429: what is appended to images,
\* textures and materials
smf_material_lists(tags, count, nimages, ntextures, nsamplers) ==
    [images |-> [k \in 1..count |->
                   [uri |-> "../textures/" \o Item(tags, k - 1) \o ".png"]],
     textures |-> [k \in 1..count |->
                     [source |-> nimages + k - 1, sampler |-> nsamplers - 1]],
     materials |-> [k \in 1..count |->
                      [name |-> Item(tags, k - 1),
                       texture |-> ntextures + k - 1,
                       doubleSided |-> TRUE,
                       alphaMode |-> "MASK"]]]

\* Lines 405-408: a str for tags is replaced by the str 'ERROR', with
\* count = 1
smf_loaded(m, nimages, ntextures, nsamplers) ==
    IF ~m.ok THEN m
    ELSE IF m.val.tags.type = "str"
    THEN Ok(smf_material_lists(PyStr("ERROR"), 1, nimages, ntextures,
                               nsamplers))
    ELSE Ok(smf_material_lists(m.val.tags, m.val.count, nimages, ntextures,
                               nsamplers))

smf_opened(f, nimages, ntextures, nsamplers) ==
    IF ~f.ok THEN f
    ELSE smf_loaded(smt_load(f.val), nimages, ntextures, nsamplers)

\* The material part, lines 404-429
smf_materials(matname, nimages, ntextures, nsamplers) ==
    smf_opened(open_file(<<"smt", matname>>), nimages, ntextures, nsamplers)

\* Lines 453-537: the views and accessors of the inverse bind matrices, the
\* joints and the weights, and the bytes they take
smf_skin_lists(njoints, nbones, nviews, naccessors, nbuffers) ==
    [views |-> << View(nbuffers, 0, 64 * nbones, 0),
                  View(nbuffers, 64 * nbones, 16 * njoints, 0),
                  View(nbuffers, 64 * nbones + 16 * njoints, 16 * njoints, 0) >>,
     accessors |-> << Accessor(nviews, 0, "MAT4", FLOAT, nbones),
                      Accessor(nviews + 1, 0, "VEC4", UNSIGNED_INT, njoints),
                      Accessor(nviews + 2, 0, "VEC4", FLOAT, njoints) >>,
     skins |-> << [inverseBindMatrices |-> naccessors,
                   joints |-> [k \in 1..nbones |-> k - 1]] >>,
     joint_accessor |-> naccessors + 1,
     weight_accessor |-> naccessors + 2,
     binfile |-> 64 * nbones + 32 * njoints]

\* len (joints)//4: b.count entries for each binding, one for each multiplex
smf_joints(s) ==
    Sum([k \in 1..Len(s.book) |-> s.book[k].count]) + Len(s.mplx)

smf_bound(s, nbones, nviews, naccessors, nbuffers) ==
    IF ~s.ok THEN s
    ELSE Ok(smf_skin_lists(smf_joints(s.val), nbones, nviews, naccessors,
                           nbuffers))

smf_skin_file(f, nbones, nviews, naccessors, nbuffers) ==
    IF ~f.ok THEN f
    ELSE smf_bound(ssn_load(f.val), nbones, nviews, naccessors, nbuffers)

\* The skin part, lines 449-537
smf_skin(filename, nbones, nviews, naccessors, nbuffers) ==
    IF filename \notin DOMAIN ssndb THEN Err("KeyError")
    ELSE smf_skin_file(open_file(ssndb[filename]), nbones, nviews, naccessors,
                       nbuffers)

NoSkin ==
    Ok([views |-> <<>>, accessors |-> <<>>, skins |-> <<>>,
        joint_accessor |-> -1, weight_accessor |-> -1, binfile |-> 0])

\* The strip loop writing out every index and UV it read, the padding of
\* the 8-element granularity included
RECURSIVE smf_stripsPadded(_, _, _, _, _)
smf_stripsPadded(data, k, off, nelems, strips) ==
    IF k >= data.body.count THEN Ok(strips)
    ELSE IF data.len < off + STRIP_SIZE
                       + 12 * Aligned(data.body.strips[k + 1].nelem)
    THEN Err("struct.error")
    ELSE smf_stripsPadded(data, k + 1,
                          off + STRIP_SIZE
                          + 12 * Aligned(data.body.strips[k + 1].nelem),
                          nelems + Aligned(data.body.strips[k + 1].nelem),
                          Append(strips,
                                 [length |-> data.body.strips[k + 1].nelem,
                                  slot |-> data.body.strips[k + 1].slot,
                                  index_offset |-> 4 * nelems,
                                  uv_offset |-> 8 * nelems]))

\* The strip loop, lines 591-616: strip k + 1 is read at byte off of data,
\* after nelem indices in all
RECURSIVE smf_strips(_, _, _, _, _)
smf_strips(data, k, off, nelems, strips) ==
    IF k >= data.body.count THEN Ok(strips)
    ELSE IF data.len < off + STRIP_SIZE THEN Err("struct.error")
    ELSE IF Aligned(data.body.strips[k + 1].nelem) > 0
            /\ data.len < off + STRIP_SIZE
                          + 12 * Aligned(data.body.strips[k + 1].nelem)
    THEN Err("struct.error")
    ELSE smf_strips(data, k + 1,
                    off + STRIP_SIZE
                    + 12 * Aligned(data.body.strips[k + 1].nelem),
                    nelems + data.body.strips[k + 1].nelem,
                    Append(strips,
                           [length |-> data.body.strips[k + 1].nelem,
                            slot |-> data.body.strips[k + 1].slot,
                            index_offset |-> 4 * nelems,
                            uv_offset |-> 8 * nelems]))

\* Lines 639-681: the two accessors and the primitive of a strip
smf_strip_accessors(strip, nverts, index_view, texco_view) ==
    << [type |-> "VEC2", componentType |-> FLOAT, count |-> nverts,
        sparse |-> [count |-> strip.length,
                    values |-> [bufferView |-> texco_view,
                                byteOffset |-> strip.uv_offset],
                    indices |-> [bufferView |-> index_view,
                                 byteOffset |-> strip.index_offset,
                                 type |-> "SCALAR",
                                 componentType |-> UNSIGNED_INT]]],
       Accessor(index_view, strip.index_offset, "SCALAR", UNSIGNED_INT,
                strip.length) >>

\* A primitive whose indices are one accessor further on
smf_primNext(strip, base, position, scf, skin) ==
    [mode |-> TRIANGLE_STRIP,
     indices |-> base + 2,
     material |-> strip.slot,
     attributes |->
        IF scf
        THEN [POSITION |-> position, NORMAL |-> position + 1,
              TEXCOORD_0 |-> base, WEIGHTS_0 |-> skin.weight_accessor,
              JOINTS_0 |-> skin.joint_accessor]
        ELSE [POSITION |-> position, NORMAL |-> position + 1,
              TEXCOORD_0 |-> base]]

smf_prim(strip, base, position, scf, skin) ==
    [mode |-> TRIANGLE_STRIP,
     indices |-> base + 1,
     material |-> strip.slot,
     attributes |->
        IF scf
        THEN [POSITION |-> position, NORMAL |-> position + 1,
              TEXCOORD_0 |-> base, WEIGHTS_0 |-> skin.weight_accessor,
              JOINTS_0 |-> skin.joint_accessor]
        ELSE [POSITION |-> position, NORMAL |-> position + 1,
              TEXCOORD_0 |-> base]]

\* samplers = gltf['sampler'] if 'samplers' in gltf else []
smf_samplers(gltf) ==
    IF "samplers" \in DOMAIN gltf THEN gltf["sampler"] ELSE <<>>

\* Lines 540-728, once the materials mat, the name tag, the skin and the
\* strips are read: nviews and naccessors count the views and accessors
\* before the positions, binfile the bytes, ndx the bytes of all indices
smf_document(filename, scf, gltf, mat, tag, skin, strips, nverts, nviews, naccessors, nbuffers, binfile, ndx) ==
    [nodes |->
       [Append(Get(gltf, "nodes"),
               IF scf
               THEN [name |-> tag, mesh |-> 0,
                     skin |-> Len(Get(gltf, "skins")) + Len(skin.skins) - 1]
               ELSE [name |-> tag, mesh |-> 0])
          EXCEPT ![1] = Update(@, [rotation |-> ROTATION])],
     buffers |->
       Append(Get(gltf, "buffers"),
              [byteLength |-> binfile + 24 * nverts + 3 * ndx,
               uri |-> filename \o ".bin"]),
     materials |-> Get(gltf, "materials") \o mat.materials,
     textures |-> Get(gltf, "textures") \o mat.textures,
     samplers |->
       Append(smf_samplers(gltf),
              [magFilter |-> LINEAR, minFilter |-> LINEAR_MIPMAP_LINEAR,
               wrapS |-> REPEAT, warpT |-> REPEAT]),
     images |-> Get(gltf, "images") \o mat.images,
     meshes |->
       << [name |-> tag,
           primitives |->
             [k \in 1..Len(strips) |->
                smf_prim(strips[k], naccessors + 2 * k, naccessors, scf,
                         skin)]] >>,
     skins |-> Get(gltf, "skins") \o skin.skins,
     accessors |->
       Get(gltf, "accessors") \o skin.accessors
       \o << Accessor(nviews, 0, "VEC3", FLOAT, nverts),
             Accessor(nviews + 1, 0, "VEC3", FLOAT, nverts) >>
       \o Flat([k \in 1..Len(strips) |->
                  smf_strip_accessors(strips[k], nverts, nviews + 2,
                                      nviews + 3)]),
     bufferViews |->
       Get(gltf, "bufferViews") \o skin.views
       \o << View(nbuffers, binfile, 12 * nverts, 0),
             View(nbuffers, binfile + 12 * nverts, 12 * nverts, 0),
             View(nbuffers, binfile + 24 * nverts, ndx, 0),
             View(nbuffers, binfile + 24 * nverts + ndx, 2 * ndx, 0) >>]

\* 4 bytes for each index of each strip
smf_indices(strips) == 4 * Sum([k \in 1..Len(strips) |-> strips[k].length])

\* Lines 391-616 in their order: what raises, and the document if nothing does
smf_checked(data, filename, scf, gltf, mat, tag, skin, strips) ==
    IF "samplers" \in DOMAIN gltf /\ "sampler" \notin DOMAIN gltf
    THEN Err("KeyError")
    ELSE IF ~mat.ok THEN mat
    ELSE IF data.len < SMF_HEADER THEN Err("struct.error")
    ELSE IF ~tag.ok THEN Err("ValueError")
    ELSE IF ~skin.ok THEN skin
    ELSE IF data.body.nverts > 0 /\ data.len < SMF_BODY + 32 * data.body.nverts
    THEN Err("struct.error")
    ELSE IF ~strips.ok THEN strips
    ELSE Ok(smf_document(filename, scf, gltf, mat.val, tag.val,
                         skin.val, strips.val, data.body.nverts,
                         Len(Get(gltf, "bufferViews")) + Len(skin.val.views),
                         Len(Get(gltf, "accessors")) + Len(skin.val.accessors),
                         Len(Get(gltf, "buffers")),
                         skin.val.binfile,
                         smf_indices(strips.val)))

smf_decode(data, filename, skeleton, gltf, matname) ==
    smf_checked(data, filename, skeleton # None, gltf,
                smf_materials(matname, Len(Get(gltf, "images")),
                              Len(Get(gltf, "textures")),
                              Len(smf_samplers(gltf)) + 1),
                cstr_decode(data.body.sym, Avail(data, SMF_NAME, TAG_SIZE)),
                IF skeleton # None
                THEN smf_skin(filename, Len(skeleton.val),
                              Len(Get(gltf, "bufferViews")),
                              Len(Get(gltf, "accessors")),
                              Len(Get(gltf, "buffers")))
                ELSE NoSkin,
                smf_strips(data, 0,
                           SMF_BODY + 44 * data.body.nverts
                           + 4 * data.body.count, 0, <<>>))

-----------------------------------------------------------------------------
(* saf_decode, lines 730-946 *)

HAS_EVENTS == 2
HAS_POSITIONS == 16
SAF_HEADER == 48        \* calcsize ('<32s4Bf2I')
EVENT_SIZE == 36

\* The tracks with the two sentinel key frames counted in
saf_tracksAll(nbones, positions, per, n, v, keys) ==
    [accessors |->
       << Accessor(v, 0, "SCALAR", FLOAT, keys + 2) >>
       \o Flat([b \in 1..nbones |->
                  IF positions
                  THEN << Accessor(v + 1, 16 * (b - 1), "VEC4", FLOAT,
                                   keys + 2),
                          Accessor(v + 2, 16 * (b - 1), "VEC4", FLOAT,
                                   keys + 2) >>
                  ELSE << Accessor(v + 1, 16 * (b - 1), "VEC4", FLOAT,
                                   keys + 2) >>])
       \o (IF positions THEN <<>>
           ELSE << Accessor(v + 2, 0, "VEC4", FLOAT, keys + 2) >>),
     samplers |->
       [k \in 1..(per * nbones + 2 - per) |->
          [input |-> n, interpolation |-> "LINEAR", output |-> n + k]],
     channels |->
       [k \in 1..(per * nbones + 2 - per) |->
          [target |->
             [node |-> IF k > per * nbones THEN 0 ELSE (k - 1) \div per,
              path |-> IF k > per * nbones THEN "translation"
                       ELSE IF positions /\ k % 2 = 0 THEN "translation"
                       ELSE "rotation"],
           sampler |-> k - 1]]]

\* The accessors, samplers and channels of lines 861-933: n is the first
\* accessor's index, v the first view's, per the tracks of a bone
saf_tracks(nbones, positions, per, n, v, keys) ==
    [accessors |->
       << Accessor(v, 0, "SCALAR", FLOAT, keys) >>
       \o Flat([b \in 1..nbones |->
                  IF positions
                  THEN << Accessor(v + 1, 16 * (b - 1), "VEC4", FLOAT, keys),
                          Accessor(v + 2, 16 * (b - 1), "VEC4", FLOAT, keys) >>
                  ELSE << Accessor(v + 1, 16 * (b - 1), "VEC4", FLOAT, keys) >>])
       \o (IF positions THEN <<>>
           ELSE << Accessor(v + 2, 0, "VEC4", FLOAT, keys) >>),
     samplers |->
       [k \in 1..(per * nbones + 2 - per) |->
          [input |-> n, interpolation |-> "LINEAR", output |-> n + k]],
     channels |->
       [k \in 1..(per * nbones + 2 - per) |->
          [target |->
             [node |-> IF k > per * nbones THEN 0 ELSE (k - 1) \div per,
              path |-> IF k > per * nbones THEN "translation"
                       ELSE IF positions /\ k % 2 = 0 THEN "translation"
                       ELSE "rotation"],
           sampler |-> k - 1]]]

Said(r, lines) == [ok |-> r.ok, val |-> r.val, said |-> lines]

\* Lines 796-946: keys is count - 2, the key frames between the sentinels
saf_document(filename, animset, nbones, positions, keys, tracks) ==
    [animations |->
       Append(Get(animset, "animations"),
              [channels |-> tracks.channels, samplers |-> tracks.samplers,
               name |-> filename]),
     buffers |->
       Append(Get(animset, "buffers"),
              [byteLength |-> 4 * keys + 16 * nbones * keys
                              + (IF positions THEN 16 * nbones * keys
                                 ELSE 16 * keys),
               uri |-> filename \o ".bin"]),
     bufferViews |->
       Get(animset, "bufferViews")
       \o << View(Len(Get(animset, "buffers")), 0, 4 * keys, 0),
             View(Len(Get(animset, "buffers")), 4 * keys, 16 * nbones * keys,
                  16 * nbones),
             View(Len(Get(animset, "buffers")),
                  4 * keys + 16 * nbones * keys,
                  IF positions THEN 16 * nbones * keys ELSE 16 * keys,
                  IF positions THEN 16 * nbones ELSE 0) >>,
     accessors |-> Get(animset, "accessors") \o tracks.accessors]

\* Lines 760-819, for an animation of the skeleton's bones: the key frames
\* end at byte keys, the events at byte after
saf_frames(b, size, filename, animset, count, nbones, events, positions, keys, after) ==
    IF size < keys THEN Err("struct.error")
    ELSE IF events /\ size < keys + 8 THEN Err("struct.error")
    ELSE IF positions /\ nbones > 0 /\ size < after + 16 * count * nbones
    THEN Err("struct.error")
    ELSE IF count > 2 /\ b.fps = 0 THEN Err("ZeroDivisionError")
    ELSE Ok(saf_document(filename, animset, nbones, positions, count - 2,
                         saf_tracks(nbones, positions,
                                    IF positions THEN 2 ELSE 1,
                                    Len(Get(animset, "accessors")),
                                    Len(Get(animset, "bufferViews")),
                                    count - 2)))

\* An animation decoded for the bones its offsets imply, whatever the
\* skeleton has
saf_bonesAnyway(b, size, filename, nskel, animset, count, nbones) ==
    Said(saf_frames(b, size, filename, animset, count, nbones,
                    BitAnd(b.flags, HAS_EVENTS) # 0,
                    BitAnd(b.flags, HAS_POSITIONS) # 0,
                    SAF_HEADER + 4 * count + count * (4 + 16 * nbones + 16),
                    SAF_HEADER + 4 * count + count * (4 + 16 * nbones + 16)
                    + (IF BitAnd(b.flags, HAS_EVENTS) # 0
                       THEN 8 + EVENT_SIZE * b.nevents ELSE 0)),
         <<>>)

\* Lines 754-758 and on: nbones is what the first two offsets imply
saf_bones(b, size, filename, nskel, animset, count, nbones) ==
    IF nskel # nbones
    THEN Said(Ok(EmptyMap), << "animation references other bones" >>)
    ELSE Said(saf_frames(b, size, filename, animset, count, nbones,
                         BitAnd(b.flags, HAS_EVENTS) # 0,
                         BitAnd(b.flags, HAS_POSITIONS) # 0,
                         SAF_HEADER + 4 * count
                         + count * (4 + 16 * nbones + 16),
                         SAF_HEADER + 4 * count
                         + count * (4 + 16 * nbones + 16)
                         + (IF BitAnd(b.flags, HAS_EVENTS) # 0
                            THEN 8 + EVENT_SIZE * b.nevents ELSE 0)),
              <<>>)

\* Lines 736-752: count is the header's count + 2
saf_header(b, size, filename, nskel, animset, count) ==
    IF size < SAF_HEADER THEN Said(Err("struct.error"), <<>>)
    ELSE IF b.version # 1 THEN Said(Err("Exception"), <<>>)
    ELSE IF size < SAF_HEADER + 4 * count THEN Said(Err("struct.error"), <<>>)
    ELSE IF \E k \in 1..count : ~(b.offsets[k] < size)
    THEN Said(Err("Exception"), <<>>)
    ELSE saf_bones(b, size, filename, nskel, animset, count,
                   (((b.offsets[2] - b.offsets[1]) \div 4) \div 4) - 1)

saf_decode(data, filename, skeleton, animset) ==
    saf_header(data.body, data.len, filename, Len(skeleton), animset,
               data.body.count + 2)

-----------------------------------------------------------------------------
(* Lex, animset_parse and actor_parse, lines 948-958 and 971-1030 *)

\* The lines of a script that are not empty; '' has no decode ()
Lex(data) ==
    IF data = NoScript THEN Err("AttributeError")
    ELSE Ok(SelectSeq(data.body.lines, LAMBDA x : x # ""))

\* lx.next () at line p: '' when the lines have run out
Tok(ls, p) == IF p > Len(ls) THEN "" ELSE ls[p]

Digits == <<"0", "1", "2", "3", "4", "5">>

\* int (s)
int(s) ==
    IF \E k \in 1..Len(Digits) : Digits[k] = s
    THEN Ok((CHOOSE k \in 1..Len(Digits) : Digits[k] = s) - 1)
    ELSE Err("ValueError")

\* 'ANIMSET_DEF_FILE' in ln, 'ACTOR_DEF_FILE' in ln
IsAnimsetFile(ln) == ln \in {"ANIMSET_DEF_FILE", "ANIMSET_DEF_FILE e01"}
IsActorFile(ln) == ln \in {"ACTOR_DEF_FILE", "ACTOR_DEF_FILE e01"}

\* The while loop of animset_parse with ln the line at p
RECURSIVE animset_defs(_, _, _)
animset_def(ls, p, sets, num) ==
    IF ~num.ok THEN num
    ELSE IF \E k \in 1..num.val : Tok(ls, p + 2 + k) = ""
    THEN Err("Exception")
    ELSE animset_defs(ls, p + 3 + num.val,
                      Put(sets, Lower(Tok(ls, p + 1)),
                          [k \in 1..num.val |-> Lower(Tok(ls, p + 2 + k))]))

animset_defs(ls, p, sets) ==
    IF Tok(ls, p) = "ENDFILE" THEN Ok(sets)
    ELSE IF Tok(ls, p) # "ANIMSET_DEF" THEN Err("Exception")
    ELSE animset_def(ls, p, sets, int(Tok(ls, p + 2)))

animset_lines(lx) ==
    IF ~lx.ok THEN lx
    ELSE IF ~IsAnimsetFile(Tok(lx.val, 1)) THEN Err("Exception")
    ELSE animset_defs(lx.val, 2, EmptyMap)

animset_parse(data) == animset_lines(Lex(data))

\* actors[tag] = v: a dict keeps the place of a key it already has
DictSet(items, tag, v) ==
    IF \E k \in 1..Len(items) : items[k].tag = tag
    THEN [k \in 1..Len(items) |->
            IF items[k].tag = tag THEN [tag |-> tag, base |-> v[1],
                                        anims |-> v[2]]
            ELSE items[k]]
    ELSE Append(items, [tag |-> tag, base |-> v[1], anims |-> v[2]])

RECURSIVE actor_defs(_, _, _)
actor_defs(ls, p, items) ==
    IF Tok(ls, p) = "ENDFILE" THEN Ok(items)
    ELSE IF Tok(ls, p) # "ACTOR_DEF" THEN Err("Exception")
    ELSE IF \E k \in 4..7 : ~int(Tok(ls, p + k)).ok THEN Err("ValueError")
    ELSE actor_defs(ls, p + 8,
                    DictSet(items, Tok(ls, p + 1),
                            << Lower(Tok(ls, p + 2)), Lower(Tok(ls, p + 3)) >>))

actor_lines(lx) ==
    IF ~lx.ok THEN lx
    ELSE IF ~IsActorFile(Tok(lx.val, 1)) THEN Err("Exception")
    ELSE actor_defs(lx.val, 2, <<>>)

actor_parse(data) == actor_lines(Lex(data))

-----------------------------------------------------------------------------
(* The archives a whole run of readbin is made on *)

File(fn, sz, body) == [fn |-> fn, sz |-> sz, body |-> body]
Dir(name, files) == [name |-> name, nfiles |-> Len(files), files |-> files]

SeqsUpTo(S, n) == UNION { [1..k -> S] : k \in 0..n }

\* Textures: a 2x2 twiddled RGB565 one, a pixel format without a decoder, a
\* blob without the magic, a 4x4 one that ends after 8 bytes of pixels
TexKinds == {"ok", "unsupported", "notpvr", "short"}
TexNames == <<"t0.pvr", "t1.pvr", "t2.pvr", "t3.pvr">>

TexOf(kind) ==
    CASE kind = "ok" ->
           [magic |-> TRUE, px |-> RGB565, fmt |-> SQUARE_TWIDDLED,
            width |-> 2, height |-> 2, len |-> 24, seed |-> 5]
      [] kind = "unsupported" ->
           [magic |-> TRUE, px |-> 3, fmt |-> SQUARE_TWIDDLED,
            width |-> 2, height |-> 2, len |-> 24, seed |-> 5]
      [] kind = "notpvr" ->
           [magic |-> FALSE, px |-> RGB565, fmt |-> SQUARE_TWIDDLED,
            width |-> 2, height |-> 2, len |-> 24, seed |-> 5]
      [] kind = "short" ->
           [magic |-> TRUE, px |-> RGB565, fmt |-> SQUARE_TWIDDLED,
            width |-> 4, height |-> 4, len |-> 24, seed |-> 5]

\* Meshes: 3 vertices and two strips of 5 and 9 elements
Mesh(sym) ==
    [sym |-> sym, nverts |-> 3, count |-> 2,
     strips |-> << [slot |-> 0, nelem |-> 5], [slot |-> 1, nelem |-> 9] >>]

MeshSize(m) ==
    SMF_BODY + 44 * m.nverts + 4 * m.count
    + Sum([k \in 1..m.count |-> STRIP_SIZE + 12 * Aligned(m.strips[k].nelem)])

Material(sym, tags) == [sym |-> sym, count |-> Len(tags), tags |-> tags]
MaterialSize(m) == SMT_HEADER + (PARAM_SIZE + TAG_SIZE) * m.count

\* Static models: complete, with a material file of 36 bytes, without a
\* material file, with the mesh four bytes short, and complete with 4
\* vertices and three strips of 8, 3 and 17 elements
ModelKinds == {"ok", "shortmat", "nomat", "cut", "three"}
ModelNames == <<"m0.smf", "m1.smf", "m2.smf", "m3.smf">>
ModelSyms == <<"gate", "door", "crate", "torch">>

ModelMesh(k, kind) ==
    IF kind = "three"
    THEN [Mesh(ModelSyms[k]) EXCEPT
            !.nverts = 4, !.count = 3,
            !.strips = << [slot |-> 0, nelem |-> 8], [slot |-> 0, nelem |-> 3],
                          [slot |-> 1, nelem |-> 17] >>]
    ELSE Mesh(ModelSyms[k])

ModelFile(k, kind) ==
    File(ModelNames[k],
         MeshSize(ModelMesh(k, kind)) - (IF kind = "cut" THEN 4 ELSE 0),
         ModelMesh(k, kind))

ModelMaterial(k, kind) ==
    CASE kind = "nomat" -> <<>>
      [] kind = "shortmat" ->
           << File(ModelNames[k], SMT_HEADER, Material(ModelSyms[k], <<>>)) >>
      [] OTHER ->
           << File(ModelNames[k],
                   MaterialSize(Material(ModelSyms[k], <<"wood", "iron">>)),
                   Material(ModelSyms[k], <<"wood", "iron">>)) >>

\* Actors: a skeleton of two bones, a skin of 2 + 1 vertices, a mesh and
\* its material, under one symbol
Skeleton(sym) ==
    [sym |-> sym, nbones |-> 2,
     bones |-> << [tag |-> "root", nchildren |-> 1],
                  [tag |-> "arm", nchildren |-> 0] >>,
     hier |-> << 1 >>]
SkeletonSize(s) == SSK_HEADER + BONE_SIZE * s.nbones + 4 * (s.nbones - 1)

Skin(sym) ==
    [sym |-> sym, count |-> 1, multiplexed |-> 1,
     binds |-> << [bone |-> 0, count |-> 2, offset |-> 0] >>,
     mplx |-> << [count |-> 1, bones |-> <<0, 1, 0>>] >>]
\* A skin of 1 + 2 vertices: the multiplex record has the count 2
BlendSkin(sym) ==
    [Skin(sym) EXCEPT !.binds = << [bone |-> 0, count |-> 1, offset |-> 0] >>,
                      !.mplx = << [count |-> 2, bones |-> <<0, 1, 0>>] >>]
SkinSize(s) ==
    SSN_HEADER + BIND_SIZE * s.count + (MPLX_SIZE + MPLX_SKIP) * s.multiplexed

\* An actor: complete, of an animset no script defines, without a skeleton
\* file, with a skeleton file cut after 8 bytes of bones, without a skin,
\* and complete with the skin of a multiplex record of two vertices
ActorKinds == {"ok", "noset", "nobase", "badskel", "noskin", "blend"}
ActorTags == <<"Hero", "Bat", "Wolf", "Imp">>
ActorSyms == <<"hero", "bat", "wolf", "imp">>

ActorFiles(k, kind, dir) ==
    LET sym == ActorSyms[k]
    IN CASE dir = "ssk" ->
              IF kind = "nobase" THEN <<>>
              ELSE << File(sym \o ".ssk",
                           IF kind = "badskel" THEN SSK_HEADER + 8
                           ELSE SkeletonSize(Skeleton(ActorTags[k])),
                           Skeleton(ActorTags[k])) >>
         [] dir = "ssn" ->
              IF kind = "noskin" THEN <<>>
              ELSE IF kind = "blend"
              THEN << File(sym \o ".ssn", SkinSize(BlendSkin(ActorTags[k])),
                           BlendSkin(ActorTags[k])) >>
              ELSE << File(sym \o ".ssn", SkinSize(Skin(ActorTags[k])),
                           Skin(ActorTags[k])) >>
         [] dir = "scf" ->
              << File(sym \o ".scf", MeshSize(Mesh(ActorTags[k])),
                      Mesh(ActorTags[k])) >>
         [] dir = "smt" ->
              << File(sym \o ".scf", MaterialSize(Material(sym, <<"skin">>)),
                      Material(sym, <<"skin">>)) >>

\* Animations of one key frame between the two sentinels: complete, absent,
\* made for three bones, cut in the key frames, of version 2, with events
\* and the position table, with fps = 0, and of two key frames with events
\* and the position table
AnimKinds == {"ok", "nofile", "mismatch", "cut", "v2", "full", "fps0", "two"}
AnimNames == <<"walk", "run", "die", "idle">>
AnimTokens == <<"Walk", "run", "die", "idle">>

Anim(kind) ==
    LET nbones == IF kind = "mismatch" THEN 3 ELSE 2
        count == IF kind = "two" THEN 2 ELSE 1
        frame == 4 + 16 * nbones + 16
        first == SAF_HEADER + 4 * (count + 2)
    IN [flags |-> IF kind \in {"full", "two"}
                  THEN HAS_EVENTS + HAS_POSITIONS ELSE 0,
        fps |-> IF kind = "fps0" THEN 0 ELSE 30,
        version |-> IF kind = "v2" THEN 2 ELSE 1,
        count |-> count,
        nevents |-> 1,
        offsets |-> [k \in 1..(count + 2) |-> first + (k - 1) * frame]]

AnimSize(a) ==
    LET nbones == (a.offsets[2] - a.offsets[1] - 20) \div 16
    IN a.offsets[Len(a.offsets)] + (a.offsets[2] - a.offsets[1])
       + (IF BitAnd(a.flags, HAS_EVENTS) # 0 THEN 8 + EVENT_SIZE * a.nevents
          ELSE 0)
       + (IF BitAnd(a.flags, HAS_POSITIONS) # 0
          THEN 16 * Len(a.offsets) * nbones ELSE 0)

AnimFile(k, kind) ==
    IF kind = "nofile" THEN <<>>
    ELSE << File(AnimNames[k],
                 AnimSize(Anim(kind)) - (IF kind = "cut" THEN 20 ELSE 0),
                 Anim(kind)) >>

\* The scripts: complete, absent, without the first line, and ending
\* without ENDFILE
ScriptKinds == {"ok", "none", "noheader", "open"}

ScriptSize(lines) == Sum([k \in 1..Len(lines) |-> Len(lines[k]) + 1])

ScriptFile(fn, kind, first, defs) ==
    LET lines == (IF kind = "noheader" THEN <<>> ELSE << first, "" >>)
                 \o defs
                 \o (IF kind = "open" THEN <<>> ELSE << "ENDFILE" >>)
    IN IF kind = "none" THEN <<>>
       ELSE << File(fn, ScriptSize(lines), [lines |-> lines]) >>

AnimsetLines(anims) ==
    << "ANIMSET_DEF", "Set0", Digits[Len(anims) + 1] >>
    \o [k \in 1..Len(anims) |-> AnimTokens[k]]

ActorLines(acts) ==
    Flat([k \in 1..Len(acts) |->
            << "ACTOR_DEF", ActorTags[k], ActorTags[k],
               IF acts[k] = "noset" THEN "set9" ELSE "Set0",
               "0", "1", "2", "3" >>])

\* The archive of a choice c of textures, models, actors, animations and
\* scripts; a directory without files is left out
Archive(c) ==
    LET files(dir) == Flat([k \in 1..Len(c.act) |-> ActorFiles(k, c.act[k], dir)])
        all == << Dir("textures",
                      [k \in 1..Len(c.tex) |->
                         File(TexNames[k], TexOf(c.tex[k]).len, TexOf(c.tex[k]))]),
                  Dir("smf", [k \in 1..Len(c.mdl) |-> ModelFile(k, c.mdl[k])]),
                  Dir("smt",
                      Flat([k \in 1..Len(c.mdl) |-> ModelMaterial(k, c.mdl[k])])
                      \o files("smt")),
                  Dir("SSK", files("ssk")),
                  Dir("ssn", files("ssn")),
                  Dir("scf", files("scf")),
                  Dir("saf", Flat([k \in 1..Len(c.anim) |-> AnimFile(k, c.anim[k])])),
                  Dir("misc",
                      ScriptFile("e01_animsets.txt", c.sets, "ANIMSET_DEF_FILE e01",
                                 AnimsetLines(c.anim))
                      \o ScriptFile("e01_actors.txt", c.acts, "ACTOR_DEF_FILE",
                                    ActorLines(c.act))) >>
    IN SelectSeq(all, LAMBDA d : d.nfiles > 0)

Choice(t, m, a, n, s1, s2) ==
    [tex |-> t, mdl |-> m, act |-> a, anim |-> n, sets |-> s1, acts |-> s2]

Plain == Choice(<<"ok">>, <<"ok">>, <<"ok">>, <<"ok">>, "ok", "ok")

\* One part of the archive varies and the rest is complete
Choices ==
    { [Plain EXCEPT !.tex = t] : t \in SeqsUpTo(TexKinds, MaxTex) }
    \cup { [Plain EXCEPT !.mdl = m] : m \in SeqsUpTo(ModelKinds, MaxModels) }
    \cup { [Plain EXCEPT !.act = a, !.anim = n] :
             a \in SeqsUpTo(ActorKinds, MaxActors),
             n \in { <<"ok">>, <<"nofile", "ok">> } }
    \cup { [Plain EXCEPT !.anim = n] : n \in SeqsUpTo(AnimKinds, MaxAnims) }
    \cup { [Plain EXCEPT !.sets = s, !.acts = a] :
             s \in ScriptKinds, a \in ScriptKinds }

Archives == { Archive(c) : c \in Choices } \cup { <<>> }

AllOn == [raw |-> FALSE, textures |-> TRUE, models |-> TRUE, actors |-> TRUE]

RunArgs ==
    { AllOn,
      [AllOn EXCEPT !.raw = TRUE],
      [AllOn EXCEPT !.actors = FALSE],
      [AllOn EXCEPT !.textures = FALSE, !.models = FALSE] }

-----------------------------------------------------------------------------
(* readbin after the scan, lines 1108-1206 *)

NewDoc ==
    [asset |-> [generator |-> "Castlevania: Resurrection Tools",
                version |-> "2.0"]]

\* gltf['scenes'] = [{'nodes': [x for x in range (len (gltf['nodes']))]}]
Scenes(gltf) == << [nodes |-> [x \in 1..Len(gltf["nodes"]) |-> x - 1]] >>

\* A file written and a diagnostic printed
Wrote(kind, name, val) == [kind |-> kind, name |-> name, val |-> val]
Printed(name, msg) == [kind |-> "diagnostic", name |-> name, val |-> msg]

\* An exception leaves readbin, and main with it
Abort(e) ==
    /\ pc' = "raised"
    /\ err' = e

\* if args.raw: return
CheckRaw ==
    /\ pc = "scanned"
    /\ pc' = IF args.raw THEN "done" ELSE "textures"
    /\ UNCHANGED <<stream, rest, file_length, args, cur, err, di, dn, nfiles, i,
                   entries, bfn, dbVars, pvrVars, runVars>>

\* One pass of for txt in textures, lines 1115-1119: a failed decode is an
\* exception of verify, and nothing here catches one
ConvertTexture ==
    /\ pc = "textures"
    /\ args.textures
    /\ ti < Len(textures)
    /\ stage' = "textures"
    /\ ti' = ti + 1
    /\ \E ret \in {pvr_decode(Data([fs[textures[ti + 1]].body EXCEPT
                                       !.len = fs[textures[ti + 1]].len]))} :
         IF ret.kind = "pix" THEN
              /\ out' = Append(out, Wrote("png", textures[ti + 1], ret.mode))
              /\ UNCHANGED <<pc, err>>
         ELSE IF ret.kind = "error" THEN
              /\ Abort("Exception")
              /\ out' = out
         ELSE /\ Abort(ret.val)
              /\ out' = out
    /\ UNCHANGED <<stream, rest, file_length, args, cur, di, dn, nfiles, i, entries,
                   bfn, dbVars, pvrVars, mi, animsets, actors, ai, ni, skel>>

TexturesEnd ==
    /\ pc = "textures"
    /\ ~args.textures \/ ti >= Len(textures)
    /\ pc' = "models"
    /\ UNCHANGED <<stream, rest, file_length, args, cur, err, di, dn, nfiles, i,
                   entries, bfn, dbVars, pvrVars, runVars>>

\* gltf.update (...) and gltf['scenes'] = ...
WithScenes(gltf, obj) ==
    Update(Update(gltf, obj), [scenes |-> Scenes(Update(gltf, obj))])

\* The body of the try of lines 1126-1142 for the model mdl
ModelDecoded(r) == IF r.ok THEN Ok(WithScenes(NewDoc, r.val)) ELSE r

ModelDoc(mdl, f) ==
    IF ~f.ok THEN f
    ELSE ModelDecoded(smf_decode(f.val, mdl, None, NewDoc, mdl))

\* One pass of for mdl in models, lines 1124-1145
ConvertModel ==
    /\ pc = "models"
    /\ args.models
    /\ mi < Len(models)
    /\ \E r \in {ModelDoc(models[mi + 1], open_file(<<"smf", models[mi + 1]>>))} :
         out' = Append(out,
                  IF r.ok THEN Wrote("gltf", <<models[mi + 1]>>, r.val)
                  ELSE Printed(<<models[mi + 1]>>, r.val))
    /\ stage' = "models"
    /\ mi' = mi + 1
    /\ UNCHANGED <<stream, rest, file_length, args, cur, pc, err, di, dn, nfiles, i,
                   entries, bfn, dbVars, pvrVars, ti, animsets, actors, ai, ni,
                   skel>>

ModelsEnd ==
    /\ pc = "models"
    /\ ~args.models \/ mi >= Len(models)
    /\ pc' = IF args.actors THEN "scripts" ELSE "done"
    /\ UNCHANGED <<stream, rest, file_length, args, cur, err, di, dn, nfiles, i,
                   entries, bfn, dbVars, pvrVars, runVars>>

\* Lines 1150-1154: bfn is unbound after an archive without directories;
\* the parsers run outside any try
ParseScripts ==
    /\ pc = "scripts"
    /\ stage' = "scripts"
    /\ \E sets \in {animset_parse(animset_script)},
          acts \in {actor_parse(actor_script)} :
          IF bfn = "" THEN
               /\ Abort("UnboundLocalError")
               /\ UNCHANGED <<animsets, actors>>
          ELSE IF ~sets.ok THEN
               /\ Abort(sets.val)
               /\ UNCHANGED <<animsets, actors>>
          ELSE IF ~acts.ok THEN
               /\ Abort(acts.val)
               /\ animsets' = sets.val
               /\ UNCHANGED actors
          ELSE /\ animsets' = sets.val
               /\ actors' = acts.val
               /\ pc' = "actors"
               /\ err' = err
    /\ UNCHANGED <<stream, rest, file_length, args, cur, di, dn, nfiles, i, entries,
                   bfn, dbVars, pvrVars, ti, mi, ai, ni, skel, out>>

\* with open_file (sskdb[v[0]],'rb') as f: bones = ssk_load (f.read ())
SkeletonRead(f) == IF ~f.ok THEN f ELSE ssk_load(f.val)

Skeleton_load(base) ==
    IF base \notin DOMAIN sskdb THEN Err("KeyError")
    ELSE SkeletonRead(open_file(sskdb[base]))

\* One pass of for k, v in actors.items () up to the animations, lines
\* 1156-1174: an unknown animset is passed over without a word; the
\* skeleton is looked up and loaded outside any try
NextActor ==
    /\ pc = "actors"
    /\ ai < Len(actors)
    /\ stage' = "skeleton"
    /\ \E v \in {actors[ai + 1]} :
         IF v.anims \notin DOMAIN animsets THEN
              /\ ai' = ai + 1
              /\ UNCHANGED <<pc, err, ni, skel>>
         ELSE \E bones \in {Skeleton_load(v.base)} :
              IF ~bones.ok THEN
                   /\ Abort(bones.val)
                   /\ UNCHANGED <<ai, ni, skel>>
              ELSE /\ skel' = [k \in 1..Len(bones.val) |->
                                 [name |-> bones.val[k].tag,
                                  children |-> bones.val[k].children]]
                   /\ ni' = 0
                   /\ IF animsets[v.anims] = <<>>
                      THEN ai' = ai + 1 /\ pc' = pc
                      ELSE ai' = ai /\ pc' = "anims"
                   /\ err' = err
    /\ UNCHANGED <<stream, rest, file_length, args, cur, di, dn, nfiles, i, entries,
                   bfn, dbVars, pvrVars, ti, mi, animsets, actors, out>>

\* Lines 1193-1200: the mesh g of the actor's base symbol goes into the
\* document gltf that holds the animation
AnimationMeshed(gltf, mdl, said) ==
    IF ~mdl.ok THEN Said(mdl, said)
    ELSE Said(Ok(Update(WithScenes(gltf, mdl.val), [scene |-> 0])), said)

AnimationMesh(base, gltf, g, said) ==
    IF ~g.ok THEN Said(g, said)
    ELSE IF base \notin DOMAIN smtdb THEN Said(Err("KeyError"), said)
    ELSE AnimationMeshed(gltf, smf_decode(g.val, base, PyList(skel), gltf,
                                          smtdb[base]), said)

AnimationDecoded(base, gltf, obj) ==
    IF ~obj.ok THEN obj
    ELSE IF base \notin DOMAIN scfdb THEN Said(Err("KeyError"), obj.said)
    ELSE AnimationMesh(base, Update(gltf, obj.val), open_file(scfdb[base]),
                       obj.said)

AnimationFile(base, anim, gltf, f) ==
    IF ~f.ok THEN Said(f, <<>>)
    ELSE AnimationDecoded(base, gltf, saf_decode(f.val, anim, skel, gltf))

\* The body of the try of lines 1177-1203 for the animation anim of the
\* actor of the base symbol base: the animation, then the mesh, into one
\* document
AnimationDoc(base, anim) ==
    AnimationFile(base, anim, Update(NewDoc, [nodes |-> skel]),
                  open_file(<<"saf", anim>>))

\* One pass of for anim in animset, lines 1176-1206; smf_decode sets the
\* rotation of nodes[0], the first node of skel
Animation ==
    /\ pc = "anims"
    /\ stage' = "animations"
    /\ \E v \in {actors[ai + 1]} :
       \E anim \in {animsets[v.anims][ni + 1]} :
       \E r \in {AnimationDoc(v.base, anim)} :
          /\ out' = out
                    \o [k \in 1..Len(r.said) |->
                          Printed(<<v.tag, anim>>, r.said[k])]
                    \o << IF r.ok THEN Wrote("gltf", <<v.tag, anim>>, r.val)
                          ELSE Printed(<<v.tag, anim>>, r.val) >>
          /\ skel' = IF r.ok
                     THEN [skel EXCEPT ![1] = Update(@, [rotation |-> ROTATION])]
                     ELSE skel
          /\ ni' = ni + 1
          /\ IF ni + 1 < Len(animsets[v.anims])
             THEN UNCHANGED <<pc, ai>>
             ELSE pc' = "actors" /\ ai' = ai + 1
    /\ UNCHANGED <<stream, rest, file_length, args, cur, err, di, dn, nfiles, i,
                   entries, bfn, dbVars, pvrVars, ti, mi, animsets, actors>>

ActorsEnd ==
    /\ pc = "actors"
    /\ ai >= Len(actors)
    /\ pc' = "done"
    /\ UNCHANGED <<stream, rest, file_length, args, cur, err, di, dn, nfiles, i,
                   entries, bfn, dbVars, pvrVars, runVars>>

RunStart ==
    /\ stage = "scan"
    /\ ti = 0
    /\ mi = 0
    /\ animsets = EmptyMap
    /\ actors = <<>>
    /\ ai = 0
    /\ ni = 0
    /\ skel = <<>>
    /\ out = <<>>

-----------------------------------------------------------------------------
(* Specifications *)

\* The archive scan of readbin
Init ==
    /\ stream \in Streams
    /\ rest = <<>>
    /\ file_length \in Cuts(stream)
    /\ args \in ArgsSet
    /\ ScanStart
    /\ PvrIdle
    /\ RunStart

Next ==
    \/ ReadDirHeader
    \/ ReadFileEntry
    \/ ScanEnd

Spec == Init /\ [][Next]_vars

\* pvr_decode on one blob
InitPvr ==
    /\ tex \in TexInputs
    /\ pvr = NoPvr
    /\ mcalls = <<>>
    /\ ScanIdle
    /\ RunStart

NextPvr == PvrDecode

SpecPvr == InitPvr /\ [][NextPvr]_vars

\* Two calls of morton
InitMorton ==
    /\ PvrIdle
    /\ ScanIdle
    /\ RunStart

NextMorton == MortonCall

SpecMorton == InitMorton /\ [][NextMorton]_vars

\* A whole run of readbin on one archive: the scan, then the asset loops
\* The complete archive is run with every command line, the others with
\* the default one
InitRun ==
    /\ stream \in Archives
    /\ rest = <<>>
    /\ args \in (IF stream = Archive(Plain) THEN RunArgs ELSE {AllOn})
    /\ file_length = StreamEnd(stream)
    /\ ScanStart
    /\ PvrIdle
    /\ RunStart

NextRun ==
    \/ ReadDirHeader
    \/ ReadFileEntry
    \/ ScanEnd
    \/ CheckRaw
    \/ ConvertTexture
    \/ TexturesEnd
    \/ ConvertModel
    \/ ModelsEnd
    \/ ParseScripts
    \/ NextActor
    \/ Animation
    \/ ActorsEnd

SpecRun == InitRun /\ [][NextRun]_vars

\* The archives main reads after the first one, all of the actor Bat: its
\* skeleton, skin, mesh and material alone, and these with the scripts
\* that define the actor Bat of the animset Set0 of the animation walk
LaterSymbols ==
    << Dir("smt", ActorFiles(2, "ok", "smt")),
       Dir("SSK", ActorFiles(2, "ok", "ssk")),
       Dir("ssn", ActorFiles(2, "ok", "ssn")),
       Dir("scf", ActorFiles(2, "ok", "scf")) >>

LaterActor ==
    LaterSymbols
    \o << Dir("misc",
              ScriptFile("e02_animsets.txt", "ok", "ANIMSET_DEF_FILE e01",
                         AnimsetLines(<<"ok">>))
              \o ScriptFile("e02_actors.txt", "ok", "ACTOR_DEF_FILE",
                            SubSeq(ActorLines(<<"ok", "ok">>), 9, 16))) >>

\* The first archive: complete; with textures, models and scripts of no
\* actor; and with the actors Hero and Bat while only Hero has files
Mains ==
    { Archive(Plain),
      Archive([Plain EXCEPT !.act = <<>>, !.anim = <<>>]),
      Archive([Plain EXCEPT !.act = <<"ok", "nobase">>]) }
Rests == { <<>>, <<LaterSymbols>>, <<LaterActor>>, <<LaterActor, LaterSymbols>> }

\* for a in args.files: readbin (a, args), lines 1224-1225: readbin has
\* returned and is called on the next archive; its locals are new, the
\* tables of the module and the files written stay
NextFile ==
    /\ pc = "done"
    /\ rest # <<>>
    /\ stream' = Head(rest)
    /\ rest' = Tail(rest)
    /\ file_length' = StreamEnd(Head(rest))
    /\ cur' = 0
    /\ pc' = "dir"
    /\ di' = 0
    /\ dn' = ""
    /\ nfiles' = 0
    /\ i' = 0
    /\ entries' = <<>>
    /\ bfn' = ""
    /\ textures' = <<>>
    /\ models' = <<>>
    /\ animset_script' = NoScript
    /\ actor_script' = NoScript
    /\ stage' = "scan"
    /\ ti' = 0
    /\ mi' = 0
    /\ animsets' = EmptyMap
    /\ actors' = <<>>
    /\ ai' = 0
    /\ ni' = 0
    /\ skel' = <<>>
    /\ UNCHANGED <<args, err, sskdb, ssndb, scfdb, smtdb, fs, pvrVars, out>>

\* main on one archive or more
InitMain ==
    /\ stream \in Mains
    /\ rest \in Rests
    /\ args \in {AllOn, [AllOn EXCEPT !.actors = FALSE]}
    /\ file_length = StreamEnd(stream)
    /\ ScanStart
    /\ PvrIdle
    /\ RunStart

NextMain ==
    \/ NextRun
    \/ NextFile

SpecMain == InitMain /\ [][NextMain]_vars

-----------------------------------------------------------------------------
(* The archive reader: claims C1, C2, C3 *)

\* The last scan step read a file entry
AfterEntry == pc \in {"file", "dir", "scanned"} /\ i >= 1

\* C1: for every file entry whose payload was read in full, the cursor is
\* moved to the smallest multiple of 2048 that is >= the end of the payload,
\* so after each entry of a directory the cursor is a multiple of 2048.
C1_EntryEndsOnPage ==
    /\ \A k \in 1..Len(entries) :
         LET e == entries[k]
         IN e.got = e.sz =>
              /\ e.next % ALIGNMENT = 0
              /\ e.endp <= e.next
              /\ e.next < e.endp + ALIGNMENT
    /\ AfterEntry =>
         /\ cur = entries[Len(entries)].next
         /\ cur % ALIGNMENT = 0

\* Two entries read in full, one ending inside a page, one exactly on a page
C1_Witness ==
    /\ AfterEntry
    /\ Len(entries) >= 2
    /\ \A k \in 1..Len(entries) : entries[k].got = entries[k].sz
    /\ \E k \in 1..Len(entries) : entries[k].endp % ALIGNMENT # 0
    /\ \E k \in 1..Len(entries) :
         entries[k].sz > 0 /\ entries[k].endp % ALIGNMENT = 0

\* The header of directory di, an empty one, was the last thing read
AfterEmptyHeader ==
    /\ pc \in {"dir", "scanned"}
    /\ di >= 1
    /\ stream[di].nfiles = 0

\* C2 as stated: an archive of one directory header with file_count = 0
\* yields no entry and leaves the cursor on the next 2048-aligned position
\* past the header.
C2_AsStated ==
    (Len(stream) = 1 /\ AfterEmptyHeader) =>
        /\ entries = <<>>
        /\ cur = NextPage(DIR_HEADER)

\* C2 amended: a directory header with file_count = 0 yields no entry and
\* leaves the cursor at the end of the 44-byte header, where the next
\* directory header is read; no seek to a page boundary happens.
C2_EmptyDirectory ==
    AfterEmptyHeader =>
        /\ \A k \in 1..Len(entries) : entries[k].d # di
        /\ cur = DirStart(stream, di) + DIR_HEADER
        /\ (Len(stream) = 1 => entries = <<>> /\ cur = DIR_HEADER)

C2_Witness ==
    /\ Len(stream) = 1
    /\ AfterEmptyHeader
    /\ pc = "scanned"
    /\ cur = DIR_HEADER

\* The stream ends after directory d began and before its last declared byte
EndsInside(s, len, d) ==
    /\ DirStart(s, d) < len
    /\ len < (IF s[d].nfiles = 0 THEN DirStart(s, d) + DIR_HEADER
              ELSE FileStart(s, d, s[d].nfiles) + FILE_HEADER
                   + s[d].files[s[d].nfiles].sz)

\* C3: the walk ends normally only when the stream ends between
\* directories; a stream that ends inside a directory header, inside an
\* entry's header or inside a declared payload ends in a fatal parse error.
C3_EofInsideDirectoryIsFatal ==
    pc = "scanned" => \A d \in 1..Len(stream) : ~EndsInside(stream, file_length, d)

\* The part of C3 the code keeps: a stream that ends inside a directory
\* header or inside an entry's name/size header never ends the walk normally
C3_HeaderCutIsFatal ==
    pc = "scanned" =>
      \A d \in 1..Len(stream) :
        /\ ~(DirStart(stream, d) < file_length
             /\ file_length < DirStart(stream, d) + DIR_HEADER)
        /\ \A k \in 1..stream[d].nfiles :
             ~(FileStart(stream, d, k) <= file_length
               /\ file_length < FileStart(stream, d, k) + FILE_HEADER)

-----------------------------------------------------------------------------
(* pvr_decode: claims C4, C5, C6, C7 *)

\* pvr_decode ran on a blob with the magic, a whole header and a width and
\* height below 0x8000
Decoded ==
    /\ pvr.kind # "none"
    /\ tex.magic
    /\ tex.len >= HEADER_SIZE
    /\ tex.width < MAX_WIDTH
    /\ tex.height < MAX_HEIGHT

Supported(px, fmt) ==
    /\ px \in {ARGB1555, RGB565, ARGB4444}
    /\ fmt \in {SQUARE_TWIDDLED, SQUARE_TWIDDLED_MIPMAP, VQ, VQ_MIPMAP}

\* C4: pvr_decode decodes a texture only for the twelve supported pairs of
\* (pixel_format, data_layout); for every other pair it returns the error
\* value "Unsupported encoding": no pixel matrix, no exception.
C4_UnsupportedReported ==
    (Decoded /\ ~Supported(tex.px, tex.fmt)) =>
        pvr = Failed("Unsupported encoding")

Channels(px) == IF px = RGB565 THEN 3 ELSE 4
IsTwiddled(fmt) == fmt \in {SQUARE_TWIDDLED, SQUARE_TWIDDLED_MIPMAP}
IsVq(fmt) == fmt \in {VQ, VQ_MIPMAP}
IsPow2(n) == n \in {1, 2, 4, 8, 16, 32, 64, 128, 256, 512, 1024, 2048, 4096,
                    8192, 16384}

\* The blob holds the largest mip level: width*height words for a twiddled
\* texture; the codebook, width*height/4 index bytes and the 10 bytes of
\* padding for a VQ one
LongEnough(t) ==
    IF IsTwiddled(t.fmt)
    THEN t.len - HEADER_SIZE >= 2 * (t.width * t.height)
    ELSE t.len - HEADER_SIZE
           >= CODEBOOK_SIZE + ((t.width * t.height) \div 4) + VQ_PADDING

\* A decoder ran on a supported texture with a blob long enough
DecoderRan ==
    /\ Decoded
    /\ Supported(tex.px, tex.fmt)
    /\ tex.width >= 1
    /\ tex.height >= 1
    /\ LongEnough(tex)

RowsAre(h, n) ==
    /\ pvr.kind = "pix"
    /\ Len(pvr.val) = h
    /\ \A r \in 1..h : Len(pvr.val[r]) = n

C6_MortonInterleaves ==
    /\ \A n \in 1..Len(mcalls) :
         LET c == mcalls[n]
         IN /\ c.z \subseteq 0..31
            /\ \A k \in 0..15 :
                 /\ (2 * k \in c.z) <=> (k \in Bits(c.x))
                 /\ (2 * k + 1 \in c.z) <=> (k \in Bits(c.y))
            /\ (c.y = 0 => \A b \in c.z : b % 2 = 0)
            /\ (c.x = 0 => \A b \in c.z : b % 2 = 1)
    /\ Len(mcalls) = 2 =>
         (mcalls[1].z = mcalls[2].z =>
            mcalls[1].x = mcalls[2].x /\ mcalls[1].y = mcalls[2].y)

\* morton (0xffff, 0xffff) is 2^32 - 1, and a second call differs from it
C6_Witness ==
    /\ Len(mcalls) = 2
    /\ mcalls[1].x = 65535
    /\ mcalls[1].y = 65535
    /\ mcalls[1].z = 0..31
    /\ mcalls[2].x = 21845
    /\ mcalls[2].y = 0
    /\ mcalls[2].z # {}

\* pvr_decode ran on a 2x2 RGB565 square-twiddled texture
Twiddled2x2 ==
    /\ Decoded
    /\ tex.px = RGB565
    /\ IsTwiddled(tex.fmt)
    /\ tex.width = 2
    /\ tex.height = 2
    /\ LongEnough(tex)

\* src[m]: word m of the final width*height 16-bit words of the blob
SrcWord(t, m) ==
    Word([of |-> t, lo |-> t.len - 2 * (t.width * t.height),
          len |-> 2 * (t.width * t.height)], m)

\* The pixel at output (row, col) of an RGB matrix
Pixel(row, col) == SubSeq(pvr.val[row + 1], 3 * col + 1, 3 * col + 3)

EveryPixelByMorton ==
    /\ RowsAre(2, 6)
    /\ \A row \in 0..1, col \in 0..1 :
         Pixel(row, col) = unpack565(SrcWord(tex, IntOf(morton(row, col))))

\* C7 as stated: 2 rows of 6 values, the pixel at (row, col) is
\* unpack565 (src[morton (row, col)]), and the pixel at (0, 1) is
\* unpack565 (src[1]).
C7_AsStated ==
    Twiddled2x2 =>
        /\ EveryPixelByMorton
        /\ Pixel(0, 1) = unpack565(SrcWord(tex, 1))

\* C7 amended: 2 rows of 6 values, the pixel at (row, col) is
\* unpack565 (src[morton (row, col)]), and since morton (0, 1) = 2 the pixel
\* at (0, 1) is unpack565 (src[2]); src[1] is the pixel at (1, 0).
C7_RowOnEvenBits ==
    Twiddled2x2 =>
        /\ EveryPixelByMorton
        /\ Pixel(0, 1) = unpack565(SrcWord(tex, 2))
        /\ Pixel(1, 0) = unpack565(SrcWord(tex, 1))

\* A decoded 2x2 texture whose words 1 and 2 are different colours
C7_Witness ==
    /\ Twiddled2x2
    /\ pvr.kind = "pix"
    /\ unpack565(SrcWord(tex, 1)) # unpack565(SrcWord(tex, 2))

-----------------------------------------------------------------------------
(* The asset loops and the actor assembler: claims C8, C9 *)

\* A diagnostic was printed, a file was written, for the asset name
Reported(name) ==
    \E k \in 1..Len(out) : out[k].kind = "diagnostic" /\ out[k].name = name
Written(name) ==
    \E k \in 1..Len(out) : out[k].kind \in {"png", "gltf"} /\ out[k].name = name

\* C8: no error raised while processing one asset propagates beyond that
\* asset's loop iteration: in texture conversion, static-model conversion,
\* script parsing and actor/animation assembly a failure on one asset is
\* reported as a diagnostic and the remaining assets are still processed.
\* An exception that leaves readbin after the scan of an archive that has
\* directories is an error of an asset that left its loop.
C8_AssetErrorsStayInLoop ==
    /\ (pc = "raised" /\ stream # <<>>) => stage = "scan"
    /\ \A k \in 1..ti : Written(textures[k]) \/ Reported(textures[k])
    /\ \A k \in 1..mi : Written(<<models[k]>>) \/ Reported(<<models[k]>>)

\* What the code keeps of C8: an exception leaves readbin only from the
\* texture loop, the script parsers and the skeleton load; a failure of a
\* model or of an animation is printed and the loop goes on
C8_ModelAndAnimationErrorsCaught ==
    /\ pc = "raised" => stage \in {"scan", "textures", "scripts", "skeleton"}
    /\ \A k \in 1..mi : Written(<<models[k]>>) \/ Reported(<<models[k]>>)
    /\ (pc = "done" /\ ~args.raw /\ args.models) => mi = Len(models)

\* The actor at place k of the actor table, and what it refers to
UnknownAnimset(k) == actors[k].anims \notin DOMAIN animsets
UnknownBase(k) == actors[k].base \notin DOMAIN sskdb
ReportedActor(k) ==
    \E j \in 1..Len(out) :
        out[j].kind = "diagnostic" /\ Head(out[j].name) = actors[k].tag

\* The animations of the actors the assembler is through with
Assembled ==
    { <<k, n>> \in (1..ai) \X (1..(MaxAnims + 1)) :
         /\ ~UnknownAnimset(k)
         /\ n <= Len(animsets[actors[k].anims]) }
AnimationOf(kn) == animsets[actors[kn[1]].anims][kn[2]]

\* C9: an actor that refers to an animset, a base symbol or an animation
\* symbol that is not indexed is reported and only that actor or animation
\* is skipped; the run is not aborted and the later actors are assembled.
C9_CrossReferenceSkipsOne ==
    /\ ~(pc = "raised" /\ stage = "skeleton" /\ err = "KeyError")
    /\ \A k \in 1..ai : UnknownAnimset(k) => ReportedActor(k)
    /\ \A kn \in Assembled :
         <<"saf", AnimationOf(kn)>> \notin DOMAIN fs =>
             Reported(<<actors[kn[1]].tag, AnimationOf(kn)>>)

\* What the code keeps of C9: an animation whose file is not in the archive
\* is reported, and the other animations of the actor are tried
C9_MissingAnimationSkipsOne ==
    \A kn \in Assembled :
        LET name == <<actors[kn[1]].tag, AnimationOf(kn)>>
        IN /\ Written(name) \/ Reported(name)
           /\ <<"saf", AnimationOf(kn)>> \notin DOMAIN fs => Reported(name)

-----------------------------------------------------------------------------
(* The placeholder material: claim C10 *)

\* The documents of static models whose material file has fewer than 120
\* bytes
Placeholders ==
    { k \in 1..Len(out) :
         /\ out[k].kind = "gltf"
         /\ Len(out[k].name) = 1
         /\ fs[<<"smt", out[k].name[1]>>].len < SMT_MINIMUM }

\* C10: for a material file shorter than 120 bytes smf_decode emits exactly
\* one placeholder material, named ERROR, with one image and one texture
\* for it, and goes on to decode the mesh.
C10_PlaceholderNamedERROR ==
    \A k \in Placeholders :
        LET doc == out[k].val
        IN /\ Len(doc["materials"]) = 1
           /\ doc["materials"][1].name = "ERROR"
           /\ Len(doc["images"]) = 1
           /\ Len(doc["textures"]) = 1
           /\ Len(doc["meshes"]) = 1

\* What the code does: tags = 'ERROR' is a str and tags[0] its first
\* character, so the one placeholder material is named E and its image is
\* ../textures/E.png; the mesh is decoded with all its strips
C10_PlaceholderNamedE ==
    \A k \in Placeholders :
        LET doc == out[k].val
        IN /\ Len(doc["materials"]) = 1
           /\ doc["materials"][1].name = "E"
           /\ doc["images"] = << [uri |-> "../textures/E.png"] >>
           /\ doc["textures"] = << [source |-> 0, sampler |-> 0] >>
           /\ Len(doc["meshes"]) = 1
           /\ Len(doc["meshes"][1].primitives) = 2

C10_Reached == Placeholders # {}

-----------------------------------------------------------------------------
(* The alpha of ARGB1555: claim C14 *)

\* pvr_decode returned the RGBA matrix of an ARGB1555 texture
Decoded1555 ==
    /\ pvr.kind = "pix"
    /\ tex.px = ARGB1555

\* The alpha values of the matrix returned: every fourth value of a row
Alphas ==
    UNION { { pvr.val[r][4 * k] : k \in 1..(Len(pvr.val[r]) \div 4) } :
              r \in 1..Len(pvr.val) }

\* The alpha of the pixel at output (row, col) of an RGBA matrix
Alpha(row, col) == pvr.val[row + 1][4 * col + 4]

\* A 2x2 ARGB1555 square-twiddled texture was decoded
Twiddled1555 ==
    /\ Decoded1555
    /\ IsTwiddled(tex.fmt)
    /\ tex.width = 2
    /\ tex.height = 2

\* C14 as stated: the alpha of every 16-bit colour word is
\* 255 * ((c >> 15) & 31), and it is either 0 or 255*31 = 7905.
C14_AsStated ==
    Decoded1555 => Alphas \subseteq {0, 7905}

\* C14 amended: the alpha of every 16-bit colour word is
\* 255 * ((c >> 15) & 31); c >> 15 is bit 15 alone, so the alpha is 0 when
\* bit 15 is clear and 255 when it is set.
C14_AlphaIsBit15 ==
    /\ Decoded1555 => Alphas \subseteq {0, 255}
    /\ Twiddled1555 =>
          \A row \in 0..1, col \in 0..1 :
              LET c == SrcWord(tex, IntOf(morton(row, col)))
              IN /\ Alpha(row, col) = 255 * BitAnd(c \div 32768, 31)
                 /\ Alpha(row, col) = IF c >= 32768 THEN 255 ELSE 0

\* A decoded 2x2 ARGB1555 texture with a word whose bit 15 is set and one
\* whose bit 15 is clear
C14_Witness ==
    /\ Twiddled1555
    /\ Alphas = {0, 255}
    /\ \E m \in 0..3 : SrcWord(tex, m) >= 32768

-----------------------------------------------------------------------------
(* The documents written: claims C12, C13, C15, C16, C17 *)

\* The glTF documents written so far, by their place in out
Documents == { k \in 1..Len(out) : out[k].kind = "gltf" }

\* The base symbol of the actor of the tag
BaseOf(tag) ==
    actors[CHOOSE j \in 1..Len(actors) : actors[j].tag = tag].base

\* The mesh file the document at place k of out was made of: smf/<model>
\* for a static model, the scf file of the base symbol for an actor
MeshOf(k) ==
    IF Len(out[k].name) = 1 THEN fs[<<"smf", out[k].name[1]>>]
    ELSE fs[scfdb[BaseOf(out[k].name[1])]]

\* nelem of the strips of a mesh file before strip j
Before(m, j) == Sum([n \in 1..(j - 1) |-> m.body.strips[n].nelem])

\* The accessors of a document that are sparse: one for each strip
Sparse(doc) == SelectSeq(doc["accessors"], LAMBDA a : "sparse" \in DOMAIN a)

\* C16: strip k's index_offset is 4 * (sum of nelem of the strips before
\* k) and its uv_offset 8 * that sum: only the first nelem indices and
\* 2*nelem UV floats of each 8-element-aligned read are written out, with
\* no re-padding; for two strips of 5 and 9 elements the index ranges are
\* bytes [0, 20) and [20, 56) and the UV offsets 0 and 40.
C16_StripOffsets ==
    \A k \in Documents :
        LET doc == out[k].val
            m == MeshOf(k)
            sp == Sparse(doc)
            views == doc["bufferViews"]
        IN /\ Len(sp) = m.body.count
           /\ \A j \in 1..Len(sp) :
                 /\ sp[j].sparse.count = m.body.strips[j].nelem
                 /\ sp[j].sparse.indices.byteOffset = 4 * Before(m, j)
                 /\ sp[j].sparse.values.byteOffset = 8 * Before(m, j)
                 /\ views[sp[j].sparse.indices.bufferView + 1].byteLength
                      = 4 * Before(m, m.body.count + 1)
                 /\ views[sp[j].sparse.values.bufferView + 1].byteLength
                      = 8 * Before(m, m.body.count + 1)
           /\ (m.body.count = 2 /\ m.body.strips[1].nelem = 5
                               /\ m.body.strips[2].nelem = 9) =>
                 /\ sp[1].sparse.indices.byteOffset = 0
                 /\ sp[2].sparse.indices.byteOffset = 20
                 /\ views[sp[2].sparse.indices.bufferView + 1].byteLength = 56
                 /\ sp[1].sparse.values.byteOffset = 0
                 /\ sp[2].sparse.values.byteOffset = 40

\* Documents of a mesh of strips of 5 and 9 elements and of one of strips
\* of 8, 3 and 17 elements were written
C16_Witness ==
    /\ \E k \in Documents :
          /\ MeshOf(k).body.count = 2
          /\ Sparse(out[k].val)[2].sparse.indices.byteOffset = 20
    /\ \E k \in Documents :
          /\ MeshOf(k).body.count = 3
          /\ Sparse(out[k].val)[3].sparse.values.byteOffset = 88

\* Index n is one of a list of length len
Within(n, len) == 0 <= n /\ n < len

\* The bufferView indices an accessor holds: its own, or those of the
\* indices and values of its sparse part
ViewsOf(a) ==
    (IF "bufferView" \in DOMAIN a THEN {a.bufferView} ELSE {})
    \cup (IF "sparse" \in DOMAIN a
          THEN {a.sparse.indices.bufferView, a.sparse.values.bufferView}
          ELSE {})

\* The primitives of all meshes of a document
Primitives(doc) ==
    UNION { { doc["meshes"][m].primitives[p] :
                p \in 1..Len(doc["meshes"][m].primitives) } :
            m \in 1..Len(doc["meshes"]) }

\* The document at place k of out is a static mesh; an actor's with an
\* animation; an actor's whose saf_decode returned {}
IsStatic(k) == Len(out[k].name) = 1
IsAnimated(k) == Len(out[k].name) = 2 /\ "animations" \in DOMAIN out[k].val
IsBare(k) == Len(out[k].name) = 2 /\ "animations" \notin DOMAIN out[k].val

\* C12: in every glTF document written (a static mesh, an actor document
\* of saf_decode then smf_decode, the one where saf_decode returned nothing
\* included) every bufferView.buffer is below len(buffers), every
\* accessor's bufferView, those of sparse indices and values included, is
\* below len(bufferViews), and every primitive's indices and attribute
\* accessors are below len(accessors).
C12_IndexBounds ==
    \A k \in Documents :
        LET doc == out[k].val
        IN /\ \A v \in 1..Len(doc["bufferViews"]) :
                 Within(doc["bufferViews"][v].buffer, Len(doc["buffers"]))
           /\ \A a \in 1..Len(doc["accessors"]) :
                 \A v \in ViewsOf(doc["accessors"][a]) :
                     Within(v, Len(doc["bufferViews"]))
           /\ \A p \in Primitives(doc) :
                 /\ Within(p.indices, Len(doc["accessors"]))
                 /\ \A f \in DOMAIN p.attributes :
                       Within(p.attributes[f], Len(doc["accessors"]))

\* The last primitive of a document has the last accessor for its indices
Tight(k) ==
    \E p \in Primitives(out[k].val) :
        p.indices = Len(out[k].val["accessors"]) - 1

\* A static document, an animated one with two buffers and a bare actor
\* document were written, each using its last accessor
C12_Witness ==
    /\ \E k \in Documents : IsStatic(k) /\ Tight(k)
    /\ \E k \in Documents :
          IsAnimated(k) /\ Tight(k) /\ Len(out[k].val["buffers"]) = 2
    /\ \E k \in Documents : IsBare(k) /\ Tight(k)

\* The name of the files of the animation kn, its file, and the bones its
\* first two offsets imply: (offsets[1] - offsets[0]) / 16 - 1
NameOf(kn) == << actors[kn[1]].tag, AnimationOf(kn) >>
AnimationData(kn) == fs[<<"saf", AnimationOf(kn)>>]
Implied(a) == ((a.offsets[2] - a.offsets[1]) \div 16) - 1

\* The header and the offsets of the animation kn pass the verify calls
Verified(kn) ==
    /\ <<"saf", AnimationOf(kn)>> \in DOMAIN fs
    /\ AnimationData(kn).body.version = 1
    /\ AnimationData(kn).len >= SAF_HEADER + 4 * (AnimationData(kn).body.count + 2)
    /\ \A n \in 1..(AnimationData(kn).body.count + 2) :
          AnimationData(kn).body.offsets[n] < AnimationData(kn).len

\* The animation kn is made for other bones than the actor's skeleton has
Mismatched(kn) ==
    /\ Verified(kn)
    /\ Implied(AnimationData(kn).body) # fs[sskdb[actors[kn[1]].base]].body.nbones

\* The animation kn is complete and made for the bones of the skeleton
Fits(kn) ==
    /\ Verified(kn)
    /\ Implied(AnimationData(kn).body) = fs[sskdb[actors[kn[1]].base]].body.nbones
    /\ AnimationData(kn).len >= AnimSize(AnimationData(kn).body)
    /\ AnimationData(kn).body.fps # 0

\* The document written under the name, when one was
DocOf(name) ==
    out[CHOOSE k \in Documents : out[k].name = name].val

\* Nothing of the document is of an animation: it has no animations, its
\* buffers are the mesh's, its views are on them and its accessors are the
\* three of the skin, the positions, the normals and two for each strip
MeshOnly(doc, base) ==
    /\ "animations" \notin DOMAIN doc
    /\ Len(doc["buffers"]) = 1
    /\ doc["buffers"][1].uri = base \o ".bin"
    /\ \A v \in 1..Len(doc["bufferViews"]) : doc["bufferViews"][v].buffer = 0
    /\ \A a \in 1..Len(doc["accessors"]) :
          \A v \in ViewsOf(doc["accessors"][a]) :
              Within(v, Len(doc["bufferViews"]))
    /\ Len(doc["accessors"]) = 5 + 2 * fs[scfdb[base]].body.count

\* The document has the one animation of the name
OneAnimation(doc, anim) ==
    /\ "animations" \in DOMAIN doc
    /\ Len(doc["animations"]) = 1
    /\ doc["animations"][1].name = anim
    /\ Len(doc["buffers"]) = 2

\* C13: when the bone count an animation implies differs from the length
\* of the skeleton, saf_decode adds no animation, sampler, accessor,
\* bufferView or buffer to the document, says so, and the next animation
\* of the animset is processed as it would have been.
C13_MismatchSkipsOne ==
    \A kn \in Assembled :
        Mismatched(kn) =>
            /\ \E j \in 1..Len(out) :
                  /\ out[j].kind = "diagnostic"
                  /\ out[j].name = NameOf(kn)
                  /\ out[j].val = "animation references other bones"
            /\ Written(NameOf(kn)) =>
                  MeshOnly(DocOf(NameOf(kn)), actors[kn[1]].base)
            /\ \A nx \in Assembled :
                  (nx[1] = kn[1] /\ nx[2] = kn[2] + 1 /\ Fits(nx)) =>
                      /\ Written(NameOf(nx)) <=> Written(NameOf(kn))
                      /\ Written(NameOf(nx)) =>
                            OneAnimation(DocOf(NameOf(nx)), AnimationOf(nx))

\* An actor's first animation was made for three bones and its document
\* written without it, and the second one was written with its animation
C13_Witness ==
    \E kn \in Assembled :
        /\ Mismatched(kn)
        /\ Implied(AnimationData(kn).body) = 3
        /\ Written(NameOf(kn))
        /\ MeshOnly(DocOf(NameOf(kn)), actors[kn[1]].base)
        /\ <<kn[1], kn[2] + 1>> \in Assembled
        /\ Fits(<<kn[1], kn[2] + 1>>)
        /\ OneAnimation(DocOf(NameOf(<<kn[1], kn[2] + 1>>)),
                        AnimationOf(<<kn[1], kn[2] + 1>>))

\* The channels of an animation on the path, and those of them on the node
Tracks(a, path) ==
    { c \in 1..Len(a.channels) : a.channels[c].target.path = path }
TracksOn(a, path, node) ==
    { c \in Tracks(a, path) : a.channels[c].target.node = node }

\* The accessor the sampler of channel c of the animation a of doc puts
\* out, and the view it is on
Output(doc, a, c) ==
    doc["accessors"][a.samplers[a.channels[c].sampler + 1].output + 1]
Input(doc, a, c) ==
    doc["accessors"][a.samplers[a.channels[c].sampler + 1].input + 1]
OutputView(doc, a, c) == doc["bufferViews"][Output(doc, a, c).bufferView + 1]

\* The animation a of doc is the one of a file of the header count, the
\* bones and the flags
Emitted(doc, a, count, nbones, flags) ==
    /\ Len(a.channels) = Len(a.samplers)
    /\ \A c \in 1..Len(a.channels) :
          /\ Input(doc, a, c).count = count
          /\ Output(doc, a, c).count = count
          /\ Input(doc, a, c).type = "SCALAR"
    /\ Cardinality(Tracks(a, "rotation")) = nbones
    /\ \A b \in 0..(nbones - 1) :
          Cardinality(TracksOn(a, "rotation", b)) = 1
    /\ Tracks(a, "rotation") \cup Tracks(a, "translation")
         = 1..Len(a.channels)
    /\ IF BitAnd(flags, HAS_POSITIONS) # 0
       THEN /\ Cardinality(Tracks(a, "translation")) = nbones
            /\ \A b \in 0..(nbones - 1) :
                  Cardinality(TracksOn(a, "translation", b)) = 1
       ELSE /\ Cardinality(Tracks(a, "translation")) = 1
            /\ \A c \in Tracks(a, "translation") :
                  /\ a.channels[c].target.node = 0
                  /\ Output(doc, a, c).byteOffset = 0
                  /\ OutputView(doc, a, c).byteStride = 0
                  /\ OutputView(doc, a, c).byteLength = 16 * count
                  /\ OutputView(doc, a, c).byteOffset
                       = 4 * count + 16 * nbones * count

\* C15: for an animation that passes validation saf_decode emits one glTF
\* animation whose time accessor and every output accessor have exactly
\* the header's count of key frames, the first and the last of the count
\* + 2 stored ones being left out, with exactly one rotation channel for
\* each bone i on node i, and one translation channel for each bone when
\* flag 0x10 is set, otherwise exactly one translation channel, on node 0,
\* of the root's base positions.
C15_AnimationTracks ==
    \A kn \in Assembled :
        (Fits(kn) /\ Written(NameOf(kn))) =>
            /\ OneAnimation(DocOf(NameOf(kn)), AnimationOf(kn))
            /\ Emitted(DocOf(NameOf(kn)), DocOf(NameOf(kn))["animations"][1],
                       AnimationData(kn).body.count,
                       Implied(AnimationData(kn).body),
                       AnimationData(kn).body.flags)

\* The animation kn of the count and the flags was written
Tracked(kn, count, flags) ==
    /\ Fits(kn)
    /\ Written(NameOf(kn))
    /\ AnimationData(kn).body.count = count
    /\ AnimationData(kn).body.flags = flags

\* An animation of one key frame without flags and one of two key frames
\* with both flags were written, the second with four channels
C15_Witness ==
    /\ \E kn \in Assembled : Tracked(kn, 1, 0)
    /\ \E kn \in Assembled :
          /\ Tracked(kn, 2, HAS_POSITIONS + HAS_EVENTS)
          /\ Len(DocOf(NameOf(kn))["animations"][1].channels) = 4

\* The skin file of the actor document at place k of out, and the vertices
\* its simple bindings and its multiplex records stand for
SkinOf(k) == fs[ssndb[BaseOf(out[k].name[1])]]
Bound(s) == Sum([n \in 1..Len(s.body.binds) |-> s.body.binds[n].count])
Blended(s) == Sum([n \in 1..Len(s.body.mplx) |-> s.body.mplx[n].count])

\* The sum of the simple bindings' vertex counts and of the multiplex
\* counts is nverts
Covers(k) == Bound(SkinOf(k)) + Blended(SkinOf(k)) = MeshOf(k).body.nverts

\* The count of the accessor of the attribute of a primitive
CountOf(doc, p, attribute) == doc["accessors"][p.attributes[attribute] + 1].count

\* The actor documents written
ActorDocuments == { k \in Documents : Len(out[k].name) = 2 }

\* C17: for a skinned mesh whose skin satisfies the coverage invariant the
\* JOINTS_0 and WEIGHTS_0 accessors smf_decode builds each have the count
\* nverts, the count of the POSITION and NORMAL accessors, so that every
\* vertex of every primitive has exactly one joint and weight entry.
C17_SkinCoversVertices ==
    \A k \in ActorDocuments :
        Covers(k) =>
            \A p \in Primitives(out[k].val) :
                /\ CountOf(out[k].val, p, "POSITION") = MeshOf(k).body.nverts
                /\ CountOf(out[k].val, p, "NORMAL") = MeshOf(k).body.nverts
                /\ CountOf(out[k].val, p, "JOINTS_0") = MeshOf(k).body.nverts
                /\ CountOf(out[k].val, p, "WEIGHTS_0") = MeshOf(k).body.nverts

\* What the code keeps of C17: JOINTS_0 and WEIGHTS_0 have one entry for
\* each vertex of a simple binding and one for each multiplex record,
\* which is nverts when every multiplex record of a covering skin has the
\* count 1
C17_OneEntryPerRecord ==
    \A k \in ActorDocuments :
        \A p \in Primitives(out[k].val) :
            /\ CountOf(out[k].val, p, "JOINTS_0")
                 = Bound(SkinOf(k)) + Len(SkinOf(k).body.mplx)
            /\ CountOf(out[k].val, p, "WEIGHTS_0")
                 = CountOf(out[k].val, p, "JOINTS_0")
            /\ CountOf(out[k].val, p, "POSITION") = MeshOf(k).body.nverts
            /\ (Covers(k) /\ \A n \in 1..Len(SkinOf(k).body.mplx) :
                                SkinOf(k).body.mplx[n].count = 1) =>
                  CountOf(out[k].val, p, "JOINTS_0") = MeshOf(k).body.nverts

\* Documents of a covering skin with a multiplex record of one vertex and
\* of one with a record of two vertices were written
C17_Witness ==
    /\ \E k \in ActorDocuments :
          /\ Covers(k)
          /\ SkinOf(k).body.mplx[1].count = 1
          /\ \E p \in Primitives(out[k].val) :
                CountOf(out[k].val, p, "JOINTS_0") = 3
    /\ \E k \in ActorDocuments :
          /\ Covers(k)
          /\ SkinOf(k).body.mplx[1].count = 2
          /\ \E p \in Primitives(out[k].val) :
                CountOf(out[k].val, p, "JOINTS_0") = 2

-----------------------------------------------------------------------------
(* The symbol tables over a run of main: claim C11 *)

\* The assembler has looked an actor up in sskdb: an animation of an actor
\* was written or reported, which the loop of lines 1176-1206 does after
\* the lookup of line 1163
TablesRead ==
    \E j \in 1..Len(out) :
        /\ out[j].kind \in {"gltf", "diagnostic"}
        /\ Len(out[j].name) = 2
        /\ out[j].name[1] # "textures"

\* A step writes to sskdb, ssndb or scfdb
TablesWritten == sskdb' # sskdb \/ ssndb' # ssndb \/ scfdb' # scfdb

\* C11: over a whole run of main on one archive or more the tables sskdb,
\* ssndb and scfdb are written only during the scans and only read
\* thereafter: once an assembly step has read a table no later step of
\* the run writes to any of them.
C11_TablesFrozenOnceRead == [][TablesRead => ~TablesWritten]_vars

\* What the code keeps of C11: a table is written by the scan of an
\* archive only, and not between the end of that scan and the return of
\* readbin
C11_WrittenByScanOnly == [][TablesWritten => (pc = "file" /\ stage = "scan")]_vars

\* The scan of a later archive has added the skeleton, the skin and the
\* mesh of bat to the tables after an animation of Hero was assembled
C11_Witness ==
    /\ TablesRead
    /\ rest = <<>>
    /\ stream = LaterActor
    /\ pc = "scanned"
    /\ {"hero", "bat"} \subseteq DOMAIN sskdb
    /\ {"hero", "bat"} \subseteq DOMAIN scfdb

=============================================================================
